---- MODULE Spec2Model ----
(***************************************************************************)
(* Trayscope: supervision of a single gamescope child process.             *)
(*                                                                         *)
(* The repository holds two variants of the supervisor:                    *)
(*   - GamescopeManager (src/trayscope/gamescope.py), callback driven on   *)
(*     the GLib main loop, used by src/trayscope/main.py;                  *)
(*   - GamescopeProcess (src/trayscope/process.py), coroutines on asyncio. *)
(* The variable impl says which variant a behaviour runs; it is chosen at  *)
(* construction and never changes.  Both variants supervise the same       *)
(* operating-system children, modelled by the sequence children.           *)
(*                                                                         *)
(* Every handler is one atomic action: both loops are single threaded and  *)
(* a handler runs to completion (GLib) or to its next await (asyncio).     *)
(* Timers carry no clock: a pending timer may fire at any later step.      *)
(*                                                                         *)
(* Each supervisor comes with a tray protocol server: StatusNotifierItem   *)
(* (src/trayscope/status_notifier.py) with GamescopeManager, and           *)
(* StatusNotifierService (src/trayscope/tray.py) on asyncio.  Spec runs    *)
(* the supervisor with the tray that main.py attaches to it; TraySpec runs *)
(* the tray server's own calls, the supervisor standing still.             *)
(***************************************************************************)
EXTENDS Integers, Sequences, FiniteSets, Bags, TLC

\* ------------------------------------------------------------------ bounds
\* Children spawned in one behaviour of GamescopeManager.
MaxChildren == 3
\* Children spawned in one behaviour of GamescopeProcess.
MaxProcChildren == 2
\* Grace timers (stop() calls awaiting the exit) pending at one time.
MaxStops == 1
\* start() coroutines suspended in create_subprocess_exec at one time.
MaxSpawning == 2
\* The menu revision a behaviour of the tray server may reach.
MaxRevision == 3
\* Idle callbacks StatusNotifierItem has handed to the main loop at one time.
MaxPending == 2
\* The capacity of the deque of log lines in the behaviours of LogSpec,
\* where the supervisor's messages and the children's lines mix; BufferSpec
\* has the capacity of the source.
LogCapacity == 1
\* Lines logged beyond the capacity of the source in BufferSpec.
MaxOverflow == 3
\* Children whose output a behaviour of LogSpec reads.
MaxStreams == 1

\* ------------------------------------------------------- program constants
\* Exit code reported when the spawn itself fails (process.py).
SpawnFailedCode == 0 - 1
\* Exit codes a child can end with; what matters to the code is zero or not.
ExitCodes == {0, 1}
\* The menu revision both tray servers are constructed with.
InitialRevision == 1

VARIABLES
    impl,               \* "glib" (GamescopeManager) or "asyncio" (GamescopeProcess)
    children,           \* the OS processes spawned so far, by child id 1..Len
    auto_restart,       \* config.settings.auto_restart
    \* GamescopeManager
    process,            \* self._process: 0 is None, else a child id
    stopping,           \* self._stopping
    restart_source_id,  \* self._restart_source_id: 0 is None
    sources,            \* GLib timeout sources still attached to the main loop
    \* GamescopeProcess
    p_process,          \* self._process: 0 is None, else a child id
    p_stopping,         \* self._stopping
    spawning,           \* children whose start() coroutine is still suspended in
                        \* create_subprocess_exec
    stop_tasks,         \* bag of the stop() coroutines suspended at an await
    \* observation
    out,                \* what the last handler did (signals, log lines, ...)
    stop_seen,          \* restart sources that saw a stop() call since they were scheduled
    last_running,       \* child of the last completed transition into Running
                        \* whose exit has not been observed, 0 if none
    log_buffer,         \* GamescopeManager._log_buffer: a deque, its maxlen
                        \* and its items, oldest line first
    \* tray server
    status,             \* self._status, the Status property
    revision,           \* self._revision / self._menu_revision
    menu,               \* what self._menu_items holds: the settings the last
                        \* _rebuild_menu read (cfg) and the running flag the
                        \* last set_status wrote into items 1 and 2 (running)
    settings,           \* config.settings of the shared Config
    config_attached,    \* whether set_config has given the tray the Config
    pending,            \* callbacks handed to GLib.idle_add and not yet run
    tout,               \* what the last tray handler did (reply, signals, ...)
    signalled,          \* revision and menu of the last LayoutUpdated signal
    bus,                \* the server's session-bus connection: how far
                        \* connect() / register() has come and what it did
    \* TrayscopeApp
    app                 \* "running"; "quit_dialog" while _on_quit waits in
                        \* dialog.run(); "exited" once quit() has ended the
                        \* main loop

sup_vars == <<impl, children, auto_restart, process, stopping,
              restart_source_id, sources, p_process, p_stopping, spawning,
              stop_tasks, out, stop_seen, last_running, log_buffer>>

tray_vars == <<status, revision, menu, settings,
               config_attached, pending, tout, signalled, bus, app>>

vars == <<sup_vars, tray_vars>>

glib_vars == <<process, stopping, restart_source_id, sources>>
asyncio_vars == <<p_process, p_stopping, spawning, stop_tasks>>

\* ----------------------------------------------------------------- helpers
ChildIds == 1..Len(children)

\* A freshly spawned child.  reader is the state of the read loop on its
\* output ("none": not set up, "created": the task has not run yet,
\* "waiting": a read is pending, "ended"), stream the child whose pipe the
\* pending read is on.
NewChild == [alive |-> TRUE, code |-> 0, observed |-> FALSE, stop_called |-> FALSE,
             reader |-> "none", stream |-> 0]

\* The child with a read pending on the pipe of child s.
Reading(child, s) == [child EXCEPT !.reader = "waiting", !.stream = s]

\* The child with its read loop over.
ReadEnded(child) == [child EXCEPT !.reader = "ended", !.stream = 0]

\* A signal delivered to the controller; running is what is_running() answers
\* inside the handler.
Signal(sig, code, running) == [sig |-> sig, code |-> code, running |-> running]

NoSource == [id |-> 0, kind |-> "none", child |-> 0]

\* The record of a handler that did nothing.
NoOut == [op |-> "init", child |-> 0, was_running |-> FALSE, spawned |-> 0,
          failed |-> FALSE, start_called |-> FALSE, emitted |-> <<>>,
          logged |-> <<>>, term |-> 0, killed |-> 0, armed |-> 0,
          scheduled |-> 0, fired |-> NoSource, fired_stop_seen |-> FALSE,
          raised |-> FALSE, read |-> "", cancelled |-> 0]

Op(name) == [NoOut EXCEPT !.op = name]

\* The id GLib gives the next timeout source: one no attached source has.
next_source_id == CHOOSE n \in 1..(Cardinality(sources) + 1) :
                     \A s \in sources : s.id # n

\* A stop() coroutine suspended at pc, awaiting the exit of child c.
StopTask(pc, c) == [pc |-> pc, child |-> c]

\* Mutant of is_running: a child being stopped no longer counts as running.
is_running_unless_stopping == process # 0 /\ ~stopping

\* GamescopeManager.is_running
is_running == process # 0

\* GamescopeProcess.is_running
p_is_running == p_process # 0 /\ ~children[p_process].observed

IsRunning == IF impl = "glib" THEN is_running ELSE p_is_running

\* Process.send_signal(SIGTERM): the child may or may not act on it.
Signalled(c) == [children EXCEPT ![c].stop_called = TRUE]

\* Mutant of Killed: the escalation sends a signal the child may ignore.
Killed_ignorable(c, code) == children

\* Process.force_exit / Process.kill: SIGKILL cannot be ignored.
Killed(c, code) ==
    IF children[c].alive
    THEN [children EXCEPT ![c].alive = FALSE, ![c].code = code]
    ELSE children

\* ------------------------------------------------------------------- log
\* GamescopeManager.LOG_BUFFER_SIZE
LOG_BUFFER_SIZE == 1000

\* deque(maxlen=maxlen)
Deque(maxlen) == [maxlen |-> maxlen, items |-> <<>>]

\* Mutant of deque_append: a full deque turns the new line away.
deque_append_keeps_oldest(d, x) ==
    IF Len(d.items) >= d.maxlen THEN d
    ELSE [d EXCEPT !.items = Append(@, x)]

\* d.append(x): a full deque drops its oldest entry; a deque of maxlen 0
\* retains nothing.
deque_append(d, x) ==
    IF d.maxlen = 0 THEN d
    ELSE IF Len(d.items) >= d.maxlen
         THEN [d EXCEPT !.items = Append(Tail(@), x)]
         ELSE [d EXCEPT !.items = Append(@, x)]

\* The appends of the lines xs, in order.
RECURSIVE deque_extend(_, _)
deque_extend(d, xs) ==
    IF xs = <<>> THEN d
    ELSE deque_extend(deque_append(d, Head(xs)), Tail(xs))

\* GamescopeManager._log for the lines the handler logged: each line goes
\* into the buffer and to the 'log-output' signal (out.logged).
\* GamescopeProcess._log keeps no buffer and only calls on_output.
Log ==
    log_buffer' = IF impl = "glib"
                  THEN deque_extend(log_buffer, out'.logged)
                  ELSE log_buffer

\* What the child's pipe can hold next: complete lines, a last line without
\* its newline, and a line that is not valid UTF-8.
RawLines == {"frame 1\n", "frame 2\n", "tail", "<invalid>\n"}

\* The outcomes of one read: a line, the end of the stream (None / b""), or
\* an I/O error.
ReadResults ==
    [kind : {"line"}, raw : RawLines]
      \cup {[kind |-> "eof", raw |-> ""], [kind |-> "error", raw |-> ""]}

is_utf8(raw) == raw # "<invalid>\n"

\* read_line_finish_utf8: the line without its terminator.
strip_newline(raw) ==
    CASE raw = "frame 1\n" -> "frame 1"
      [] raw = "frame 2\n" -> "frame 2"
      [] OTHER -> raw

\* Mutant of add_newline: the line is logged as read_line_finish_utf8
\* returned it.
add_newline_missing(line) == line

\* line + "\n"
add_newline(line) ==
    CASE line = "frame 1" -> "frame 1\n"
      [] line = "frame 2" -> "frame 2\n"
      [] line = "tail" -> "tail\n"
      [] OTHER -> line

\* line.decode("utf-8", errors="replace")
decode_replace(raw) == IF is_utf8(raw) THEN raw ELSE "<U+FFFD>\n"

\* Mutant of read_signals: the end of the stream is reported as the end of
\* the child.
read_signals_stopped_at_end(r) ==
    IF r.kind = "line" THEN <<>> ELSE <<Signal("stopped", 0, FALSE)>>

\* The 'started' / 'stopped' signals the read loop emits: none.
read_signals(r) == <<>>

\* ------------------------------------------------------------ tray server
\* Two variants of the tray protocol server, paired with the supervisors:
\*   - StatusNotifierItem (src/trayscope/status_notifier.py), on GLib, the one
\*     src/trayscope/main.py wires to GamescopeManager (impl = "glib");
\*   - StatusNotifierService (src/trayscope/tray.py), on dbus-next and asyncio
\*     (impl = "asyncio"), which no module of the repository wires to a
\*     supervisor.

\* A D-Bus variant: a type signature and a value.
Variant(sig, value) == [sig |-> sig, value |-> value]

\* The empty property dictionary.
NoProps == [n \in {} |-> Variant("s", "")]

\* A menu label: the glyph put in front of the text ("" when none) and the text.
Label(glyph, text) == [glyph |-> glyph, text |-> text]

\* A callback: the method it is bound to and its arguments; "none" is None.
Callback(fn, arg) == [fn |-> fn, arg |-> arg]
NoCallback == Callback("none", <<>>)

\* An entry of _menu_items:
\* (label, callback, enabled, toggle_type, toggle_state, children);
\* toggle_type "none" and children <<>> stand for None.
Item(label, callback, enabled, toggle_type, toggle_state, sub) ==
    [label |-> label, callback |-> callback, enabled |-> enabled,
     toggle_type |-> toggle_type, toggle_state |-> toggle_state,
     children |-> sub]

Separator == Label("", "separator")

\* Mutant of mark: every radio label carries the filled circle.
mark_always_filled(text, selected) == Label("filled_circle", text)

\* mark() and check() of _rebuild_menu: the glyph that repeats the toggle state.
mark(text, selected) ==
    Label(IF selected THEN "filled_circle" ELSE "empty_circle", text)

check(text, on) == Label(IF on THEN "check_mark" ELSE "blank", text)

\* The values the preset items of the resolution and filter submenus stand for.
Res720p == <<1280, 720>>
Res1080p == <<1920, 1080>>
Res1440p == <<2560, 1440>>
Res4K == <<3840, 2160>>
\* A render size the settings dialog's spin buttons can hold and no preset has.
ResCustom == <<1600, 900>>

Resolutions == {Res720p, Res1080p, Res1440p, Res4K, ResCustom}
Filters == {"fsr", "nearest", "linear"}

\* config.settings, as far as the tray reads it.
Settings(render, filter, hdr_enabled, adaptive_sync) ==
    [render |-> render, filter |-> filter, hdr_enabled |-> hdr_enabled,
     adaptive_sync |-> adaptive_sync]

\* What _rebuild_menu assumes while no configuration is attached.
FallbackSettings == Settings(Res1080p, "fsr", FALSE, FALSE)

\* The settings a behaviour starts with or the settings dialog saves.
SavedSettings ==
    {FallbackSettings, Settings(ResCustom, "linear", TRUE, FALSE)}

\* The item ids of StatusNotifierService._rebuild_menu.
ServiceItemIds == {1, 2, 3, 10, 11, 12, 13, 14, 20, 21, 22, 23, 30, 31, 32, 40, 41}

\* A radio item of _rebuild_menu: selected when its value is the current one.
radio_item(text, fn, value, current) ==
    Item(mark(text, current = value), Callback(fn, value), TRUE, "radio",
         current = value, <<>>)

\* A checkmark item of _rebuild_menu.
check_item(text, fn, on) ==
    Item(check(text, on), Callback(fn, <<>>), TRUE, "checkmark", on, <<>>)

\* A plain item.
plain_item(text, fn, enabled) ==
    Item(Label("", text), Callback(fn, <<>>), enabled, "none", FALSE, <<>>)

separator_item == Item(Separator, NoCallback, TRUE, "none", FALSE, <<>>)

submenu_item(text, ids) ==
    Item(Label("", text), NoCallback, TRUE, "none", FALSE, ids)

\* The settings _rebuild_menu reads: those of the attached configuration, or
\* the fallback values when none is attached.
settings_read(attached, s) == IF attached THEN s ELSE FallbackSettings

\* The dictionary StatusNotifierService._rebuild_menu builds from settings c.
rebuild_menu(c) ==
    [i \in ServiceItemIds |->
      CASE i = 1 -> plain_item("Start Gamescope", "do_start", TRUE)
        [] i = 2 -> plain_item("Stop Gamescope", "do_stop", FALSE)
        [] i = 10 -> submenu_item("Resolution", <<11, 12, 13, 14>>)
        [] i = 11 -> radio_item("720p", "set_resolution", Res720p, c.render)
        [] i = 12 -> radio_item("1080p", "set_resolution", Res1080p, c.render)
        [] i = 13 -> radio_item("1440p", "set_resolution", Res1440p, c.render)
        [] i = 14 -> radio_item("4K", "set_resolution", Res4K, c.render)
        [] i = 20 -> submenu_item("Filter", <<21, 22, 23>>)
        [] i = 21 -> radio_item("FSR", "set_filter", "fsr", c.filter)
        [] i = 22 -> radio_item("Nearest", "set_filter", "nearest", c.filter)
        [] i = 23 -> radio_item("Linear", "set_filter", "linear", c.filter)
        [] i = 31 -> check_item("HDR", "toggle_hdr", c.hdr_enabled)
        [] i = 32 -> check_item("VRR", "toggle_vrr", c.adaptive_sync)
        [] i = 41 -> plain_item("Quit", "do_quit", TRUE)
        [] OTHER -> separator_item]

\* Mutant of ServiceRootItems: a member of the resolution submenu is also
\* listed under the root.
ServiceRootItems_with_member == <<1, 2, 3, 10, 11, 20, 30, 31, 32, 40, 41>>

\* StatusNotifierService._root_items: every _rebuild_menu assigns this list.
ServiceRootItems == <<1, 2, 3, 10, 20, 30, 31, 32, 40, 41>>

\* StatusNotifierItem.__init__: the flat menu of the GLib variant.
NotifierItemIds == 1..7

notifier_menu ==
    [i \in NotifierItemIds |->
      CASE i = 1 -> plain_item("Start Gamescope", "do_start", TRUE)
        [] i = 2 -> plain_item("Stop Gamescope", "do_stop", FALSE)
        [] i = 4 -> plain_item("Settings...", "do_settings", TRUE)
        [] i = 5 -> plain_item("View Logs...", "do_logs", TRUE)
        [] i = 7 -> plain_item("Quit", "do_quit", TRUE)
        [] OTHER -> separator_item]

\* sorted(): the elements of a set of integers in increasing order.
RECURSIVE sorted(_)
sorted(S) ==
    IF S = {} THEN <<>>
    ELSE LET m == CHOOSE x \in S : \A y \in S : x <= y
         IN  <<m>> \o sorted(S \ {m})

\* DBusMenuInterface._get_item_props (tray.py).
get_item_props(items, item_id) ==
    IF item_id \notin DOMAIN items THEN NoProps
    ELSE LET item == items[item_id]
         IN  IF item.label = Separator
             THEN "type" :> Variant("s", "separator")
             ELSE ("label" :> Variant("s", item.label))
                  @@ ("enabled" :> Variant("b", item.enabled))
                  @@ ("visible" :> Variant("b", TRUE))
                  @@ (IF item.children # <<>>
                      THEN "children-display" :> Variant("s", "submenu")
                      ELSE NoProps)
                  @@ (IF item.toggle_type # "none"
                      THEN ("toggle-type" :> Variant("s", item.toggle_type))
                           @@ ("toggle-state" :>
                                 Variant("i", IF item.toggle_state THEN 1 ELSE 0))
                      ELSE NoProps)

\* StatusNotifierItem._get_item_properties (status_notifier.py).
get_item_properties(items, item_id) ==
    IF item_id \notin DOMAIN items THEN NoProps
    ELSE LET item == items[item_id]
         IN  IF item.label = Separator
             THEN "type" :> Variant("s", "separator")
             ELSE ("label" :> Variant("s", item.label))
                  @@ ("enabled" :> Variant("b", item.enabled))

\* A node of a layout reply: (id, properties, children).
Node(id, props, kids) == [id |-> id, props |-> props, children |-> kids]

\* The depth DBusMenuInterface._build_layout hands to the children.
child_depth(depth) == IF depth > 0 THEN depth - 1 ELSE 0 - 1

\* DBusMenuInterface._build_layout (tray.py).
RECURSIVE build_layout(_, _, _, _)
build_layout(items, roots, parent_id, depth) ==
    LET kids(ids) ==
          [k \in 1..Len(ids) |->
             build_layout(items, roots, ids[k], child_depth(depth))]
    IN  IF parent_id = 0
        THEN Node(0, "children-display" :> Variant("s", "submenu"),
                  IF depth # 0 THEN kids(roots) ELSE <<>>)
        ELSE LET sub == IF parent_id \in DOMAIN items
                        THEN items[parent_id].children ELSE <<>>
             IN  Node(parent_id, get_item_props(items, parent_id),
                      IF sub # <<>> /\ depth # 0 THEN kids(sub) ELSE <<>>)

\* Mutant of notifier_root_children: the root lists its items in reverse.
notifier_root_children_reversed(items) ==
    LET ids == sorted(DOMAIN items)
    IN  [k \in 1..Len(ids) |-> ids[Len(ids) + 1 - k]]

\* The ids StatusNotifierItem._build_layout lists under the root.
notifier_root_children(items) == sorted(DOMAIN items)

\* StatusNotifierItem._build_layout (status_notifier.py): the root lists every
\* item whatever the depth, and an item never has children.
notifier_build_layout(items, parent_id, depth) ==
    IF parent_id = 0
    THEN LET ids == notifier_root_children(items)
         IN  Node(0, NoProps,
                  [k \in 1..Len(ids) |->
                     Node(ids[k], get_item_properties(items, ids[k]), <<>>)])
    ELSE Node(parent_id, get_item_properties(items, parent_id), <<>>)

\* status_map.get(status.lower(), 'Passive') of StatusNotifierItem.set_status,
\* on arguments already in lower case.
status_map(arg) ==
    CASE arg = "passive" -> "Passive"
      [] arg = "active" -> "Active"
      [] arg = "needs-attention" -> "NeedsAttention"
      [] OTHER -> "Passive"

\* A signal sent on the bus; m is the menu at the moment it is sent.
BusSignal(name, arg, m) == [sig |-> name, arg |-> arg, menu |-> m]

\* Mutant of next_revision: the revision is left as it is.
same_revision(r) == r

\* self._revision += 1 / self._menu_revision += 1
next_revision(r) == r + 1

\* The tray server as the handlers below transform it; signals collects what
\* the handler has sent on the bus so far.
TrayModel ==
    [status |-> status, revision |-> revision, menu |-> menu,
     signals |-> <<>>]

\* The menu a (re)build leaves: built from settings c, with Start enabled
\* and Stop disabled.
Built(c) == [cfg |-> c, running |-> FALSE]

\* The Start and Stop items set_status puts in place of items 1 and 2.
lifecycle_items(items, running) ==
    [items EXCEPT ![1] = plain_item("Start Gamescope", "do_start", ~running),
                  ![2] = plain_item("Stop Gamescope", "do_stop", running)]

\* self._menu_items, the dictionary the menu m stands for.
items_of(m) ==
    lifecycle_items(IF impl = "glib" THEN notifier_menu
                    ELSE rebuild_menu(m.cfg),
                    m.running)

menu_items == items_of(menu)

\* self._root_items; StatusNotifierItem has no such list.
root_items == IF impl = "glib" THEN <<>> ELSE ServiceRootItems

\* The record of a tray handler that did nothing.
\* req: the arguments of the call; invoked: the callbacks run; scheduled:
\* the callbacks handed to the main loop.
NoTrayOut ==
    [op |-> "init", req |-> <<>>, reply |-> <<>>, error |-> "",
     signals |-> <<>>, invoked |-> <<>>, scheduled |-> <<>>]

TrayOp(name) == [NoTrayOut EXCEPT !.op = name]

\* Mutant of notify_layout_update: signal, then bump.
notify_before_bump(t) ==
    [t EXCEPT !.revision = next_revision(@),
              !.signals = Append(@, BusSignal("LayoutUpdated",
                                              <<t.revision, 0>>, t.menu))]

\* DBusMenuInterface.notify_layout_update (tray.py): bump, then signal.
notify_layout_update(t) ==
    [t EXCEPT !.revision = next_revision(@),
              !.signals = Append(@, BusSignal("LayoutUpdated",
                                              <<next_revision(t.revision), 0>>,
                                              t.menu))]

\* StatusNotifierItem._emit_layout_updated (status_notifier.py), registered.
emit_layout_updated(t) ==
    [t EXCEPT !.revision = next_revision(@),
              !.signals = Append(@, BusSignal("LayoutUpdated",
                                              <<next_revision(t.revision), 0>>,
                                              t.menu))]

\* Mutant of new_status: the signal is sent before the status is stored.
new_status_before_store(t, st) ==
    [t EXCEPT !.status = st,
              !.signals = Append(@, BusSignal("NewStatus", t.status, t.menu))]

\* StatusNotifierItemInterface.update_status / StatusNotifierItem._emit_new_status
new_status(t, st) ==
    [t EXCEPT !.status = st,
              !.signals = Append(@, BusSignal("NewStatus", st, t.menu))]

\* Mutant of service_set_status: the items are patched and nothing is sent
\* about the layout.
service_set_status_silent(t, st) ==
    new_status([t EXCEPT !.menu.running = (st = "Active")], st)

\* StatusNotifierService.set_status (tray.py); it never suspends.
service_set_status(t, st) ==
    notify_layout_update(
        new_status([t EXCEPT !.menu.running = (st = "Active")], st))

\* StatusNotifierItem.set_status (status_notifier.py).
notifier_set_status(t, arg) ==
    LET st == status_map(arg)
    IN  IF st # t.status
        THEN emit_layout_updated(
                 new_status([t EXCEPT !.menu.running = (st = "Active")], st))
        ELSE t

set_status_on(t, arg) ==
    IF impl = "glib" THEN notifier_set_status(t, arg)
    ELSE service_set_status(t, arg)

\* The LayoutUpdated signals among sigs.
LayoutUpdates(sigs) == SelectSeq(sigs, LAMBDA g : g.sig = "LayoutUpdated")

\* The handler leaves the tray server as t and the record o.
TrayApply(t, o) ==
    /\ status' = t.status
    /\ revision' = t.revision
    /\ menu' = t.menu
    /\ tout' = [o EXCEPT !.signals = t.signals]
    /\ signalled' =
          LET ups == LayoutUpdates(t.signals)
          IN  IF ups = <<>> THEN signalled
              ELSE [revision |-> ups[Len(ups)].arg[1],
                    menu |-> ups[Len(ups)].menu]

\* The tray server after construction (and, for the GLib variant, after the
\* register() call that follows it in do_startup).
TrayConstructed(s) ==
    /\ status = (IF impl = "glib" THEN "Passive" ELSE "Active")
    /\ revision = InitialRevision
    /\ menu = Built(settings_read(FALSE, s))
    /\ settings = s
    /\ config_attached = FALSE
    /\ pending = <<>>
    /\ tout = NoTrayOut
    /\ signalled = [revision |-> InitialRevision, menu |-> menu]

\* --------------------------------------------------------------- the bus
\* The object paths both servers export their two interfaces at.
ObjectPaths == {"/StatusNotifierItem", "/MenuBar"}

\* The identity the server registers under: StatusNotifierItem owns the name
\* bus_name, StatusNotifierService uses the unique name of its connection.
Identity == IF impl = "glib" THEN "bus_name" ELSE "unique_name"

\* The connection of a server that was only constructed.
\* pc: where connect() / register() stands; exported: the paths that answer
\* calls; name: the identity acquired ("" while none); registrations: the
\* identities announced to the watcher, one per call issued; accepted: the
\* watcher answered the call; warnings: the messages printed on failure.
Unconnected ==
    [pc |-> "constructed", exported |-> {}, name |-> "",
     registrations |-> <<>>, accepted |-> FALSE, warnings |-> 0]

\* The connection after a startup in which the watcher answered.
Started ==
    [pc |-> "done", exported |-> ObjectPaths, name |-> Identity,
     registrations |-> <<Identity>>, accepted |-> TRUE, warnings |-> 0]

\* ------------------------------------------------------------------- Init
\* The state after construction, the log buffer being the deque d.
Constructed(d) ==
    /\ impl \in {"glib", "asyncio"}
    /\ children = <<>>
    /\ auto_restart \in (IF impl = "glib" THEN BOOLEAN ELSE {FALSE})
    /\ process = 0
    /\ stopping = FALSE
    /\ restart_source_id = 0
    /\ sources = {}
    /\ p_process = 0
    /\ p_stopping = FALSE
    /\ spawning = {}
    /\ stop_tasks = EmptyBag
    /\ out = NoOut
    /\ stop_seen = {}
    /\ last_running = 0
    /\ log_buffer = d
    /\ TrayConstructed(FallbackSettings)
    /\ bus = Started
    /\ app = "running"

\* The behaviours of the supervisor are followed with a log that retains
\* nothing: what each handler logs is in out.logged, and what the buffer
\* retains is followed in LogSpec and BufferSpec.
Init == Constructed(Deque(0))

\* ------------------------------------------------------------- Controller
\* TrayscopeApp._on_gamescope_started / _on_gamescope_stopped (main.py): GObject
\* runs the handlers inside emit(), so the tray follows within the handler
\* that emitted the signals sigs.
RECURSIVE deliver(_, _)
deliver(t, sigs) ==
    IF sigs = <<>> THEN t
    ELSE deliver(set_status_on(t, IF Head(sigs).sig = "started"
                                  THEN "active" ELSE "passive"),
                 Tail(sigs))

\* What a supervisor handler does to the tray.  Only main.py connects a
\* supervisor to a tray server, so StatusNotifierService is left alone.
Controller ==
    /\ IF impl = "glib" /\ out'.emitted # <<>>
       THEN TrayApply(deliver(TrayModel, out'.emitted), TrayOp("controller"))
       ELSE /\ UNCHANGED <<status, revision, menu, signalled>>
            /\ tout' = NoTrayOut
    /\ UNCHANGED <<settings, config_attached, pending, bus, app>>

\* ------------------------------------------------------- GamescopeManager
\* Mutant of start_body: a failed spawn emits 'stopped'.
start_body_failure_notifies(o, ok) ==
    IF is_running
    THEN /\ out' = [o EXCEPT !.was_running = TRUE, !.start_called = TRUE,
                             !.logged = Append(@, "already_running")]
         /\ UNCHANGED <<process, stopping, children, last_running>>
    ELSE /\ stopping' = FALSE
         /\ IF ok
            THEN /\ children' = Append(children,
                                        Reading(NewChild, Len(children) + 1))
                 /\ process' = Len(children) + 1
                 /\ last_running' = Len(children) + 1
                 /\ out' = [o EXCEPT !.start_called = TRUE,
                                     !.spawned = Len(children) + 1,
                                     !.logged = Append(@, "starting"),
                                     !.emitted = Append(@, Signal("started", 0, TRUE))]
            ELSE /\ process' = 0
                 /\ out' = [o EXCEPT !.start_called = TRUE, !.failed = TRUE,
                                     !.logged = @ \o <<"starting", "failed_to_start">>,
                                     !.emitted = Append(@, Signal("stopped", 0 - 1, FALSE))]
                 /\ UNCHANGED <<children, last_running>>

\* The body of GamescopeManager.start, continuing the handler record o.
\* ok: whether launcher.spawnv succeeds.
start_body(o, ok) ==
    IF is_running
    THEN /\ out' = [o EXCEPT !.was_running = TRUE, !.start_called = TRUE,
                             !.logged = Append(@, "already_running")]
         /\ UNCHANGED <<process, stopping, children, last_running>>
    ELSE /\ stopping' = FALSE
         /\ IF ok
            THEN /\ children' = Append(children,
                                        Reading(NewChild, Len(children) + 1))
                 /\ process' = Len(children) + 1
                 /\ last_running' = Len(children) + 1
                 /\ out' = [o EXCEPT !.start_called = TRUE,
                                     !.spawned = Len(children) + 1,
                                     !.logged = Append(@, "starting"),
                                     !.emitted = Append(@, Signal("started", 0, TRUE))]
            ELSE /\ process' = 0
                 /\ out' = [o EXCEPT !.start_called = TRUE, !.failed = TRUE,
                                     !.logged = @ \o <<"starting", "failed_to_start">>]
                 /\ UNCHANGED <<children, last_running>>

start ==
    /\ impl = "glib"
    /\ \E ok \in BOOLEAN :
          /\ ok => Len(children) < MaxChildren
          /\ start_body(Op("start"), ok)
    /\ UNCHANGED <<impl, auto_restart, restart_source_id, sources,
                   stop_seen>>
    /\ UNCHANGED asyncio_vars
    /\ Controller
    /\ Log

\* Mutant of stop_idle: the stop flag is set and the pending restart is
\* cancelled before the is_running() check.
stop_idle_cancels ==
    /\ out' = Op("stop")
    /\ stopping' = TRUE
    /\ restart_source_id' = 0
    /\ sources' = {s \in sources : s.id # restart_source_id}
    /\ UNCHANGED children

\* GamescopeManager.stop when is_running() is false: the early return.
stop_idle ==
    /\ out' = Op("stop")
    /\ UNCHANGED <<children, stopping, restart_source_id, sources>>

\* Mutant of stop_running: the restart timer is removed and the reference
\* to it kept.
stop_running_keeping_reference ==
    /\ Cardinality({s \in sources : s.kind = "force_kill"}) < MaxStops
    /\ stopping' = TRUE
    /\ UNCHANGED restart_source_id
    /\ sources' = {s \in sources : s.id # restart_source_id}
                    \cup {[id |-> next_source_id, kind |-> "force_kill",
                           child |-> process]}
    /\ children' = Signalled(process)
    /\ out' = [Op("stop") EXCEPT !.was_running = TRUE,
                                 !.logged = <<"stopping">>,
                                 !.term = process,
                                 !.cancelled = restart_source_id,
                                 !.armed = next_source_id]

\* GamescopeManager.stop when a child is running: set the stop flag, cancel
\* any pending restart, send SIGTERM, arm the force-kill timeout.
stop_running ==
    /\ Cardinality({s \in sources : s.kind = "force_kill"}) < MaxStops
    /\ stopping' = TRUE
    /\ restart_source_id' = 0
    /\ sources' = {s \in sources : s.id # restart_source_id}
                    \cup {[id |-> next_source_id, kind |-> "force_kill",
                           child |-> process]}
    /\ children' = Signalled(process)
    /\ out' = [Op("stop") EXCEPT !.was_running = TRUE,
                                 !.logged = <<"stopping">>,
                                 !.term = process,
                                 !.cancelled = restart_source_id,
                                 !.armed = next_source_id]

\* GamescopeManager.stop
stop ==
    /\ impl = "glib"
    /\ IF ~is_running THEN stop_idle ELSE stop_running
    /\ stop_seen' = (stop_seen \cup {s.id : s \in {t \in sources : t.kind = "restart"}})
                      \cap {s.id : s \in sources'}
    /\ UNCHANGED <<impl, auto_restart, process, last_running>>
    /\ UNCHANGED asyncio_vars
    /\ Controller
    /\ Log

\* GamescopeManager._force_kill, the callback of the timeout source s.
force_kill(s) ==
    /\ impl = "glib"
    /\ s \in sources /\ s.kind = "force_kill"
    /\ sources' = sources \ {s}
    /\ IF process # 0
       THEN \E code \in ExitCodes :
               /\ children' = Killed(process, code)
               /\ out' = [Op("force_kill") EXCEPT !.fired = s, !.killed = process,
                                                  !.logged = <<"force_killing">>]
       ELSE /\ out' = [Op("force_kill") EXCEPT !.fired = s]
            /\ UNCHANGED children
    /\ UNCHANGED <<impl, auto_restart, process, stopping, restart_source_id,
                   stop_seen, last_running>>
    /\ UNCHANGED asyncio_vars
    /\ Controller
    /\ Log

\* Mutant of should_restart: the stop flag is not consulted.
should_restart_ignoring_stop(stp, auto, exit_code) == auto /\ exit_code # 0

\* The condition under which _on_process_exit schedules a restart.
should_restart(stp, auto, exit_code) == ~stp /\ auto /\ exit_code # 0

\* Mutant of stopped_signal: emitted before the handle is cleared.
stopped_signal_before_clear(exit_code, handle) == Signal("stopped", exit_code, TRUE)

\* emit('stopped', exit_code), delivered when self._process is handle.
stopped_signal(exit_code, handle) == Signal("stopped", exit_code, handle # 0)

\* Mutant of on_process_exit: a stop() issued against any earlier child
\* still counts.
on_process_exit_remembering_stop(c) ==
    /\ impl = "glib"
    /\ c \in ChildIds
    /\ ~children[c].alive /\ ~children[c].observed
    /\ children' = [children EXCEPT ![c].observed = TRUE]
    /\ process' = 0
    /\ last_running' = IF last_running = c THEN 0 ELSE last_running
    /\ IF should_restart(\E d \in ChildIds : children[d].stop_called,
                         auto_restart, children[c].code)
       THEN /\ sources' = sources \cup {[id |-> next_source_id, kind |-> "restart",
                                         child |-> c]}
            /\ restart_source_id' = next_source_id
            /\ out' = [Op("on_process_exit") EXCEPT
                          !.child = c,
                          !.was_running = is_running,
                          !.logged = <<"exited", "will_restart">>,
                          !.emitted = <<stopped_signal(children[c].code, process')>>,
                          !.scheduled = next_source_id]
       ELSE /\ out' = [Op("on_process_exit") EXCEPT
                          !.child = c,
                          !.was_running = is_running,
                          !.logged = <<"exited">>,
                          !.emitted = <<stopped_signal(children[c].code, process')>>]
            /\ UNCHANGED <<sources, restart_source_id>>
    /\ UNCHANGED <<impl, auto_restart, stopping, stop_seen>>
    /\ UNCHANGED asyncio_vars
    /\ Controller
    /\ Log

\* GamescopeManager._on_process_exit, the wait_async callback of child c.
on_process_exit(c) ==
    /\ impl = "glib"
    /\ c \in ChildIds
    /\ ~children[c].alive /\ ~children[c].observed
    /\ children' = [children EXCEPT ![c].observed = TRUE]
    /\ process' = 0
    /\ last_running' = IF last_running = c THEN 0 ELSE last_running
    /\ IF should_restart(stopping, auto_restart, children[c].code)
       THEN /\ sources' = sources \cup {[id |-> next_source_id, kind |-> "restart",
                                         child |-> c]}
            /\ restart_source_id' = next_source_id
            /\ out' = [Op("on_process_exit") EXCEPT
                          !.child = c,
                          !.was_running = is_running,
                          !.logged = <<"exited", "will_restart">>,
                          !.emitted = <<stopped_signal(children[c].code, process')>>,
                          !.scheduled = next_source_id]
       ELSE /\ out' = [Op("on_process_exit") EXCEPT
                          !.child = c,
                          !.was_running = is_running,
                          !.logged = <<"exited">>,
                          !.emitted = <<stopped_signal(children[c].code, process')>>]
            /\ UNCHANGED <<sources, restart_source_id>>
    /\ UNCHANGED <<impl, auto_restart, stopping, stop_seen>>
    /\ UNCHANGED asyncio_vars
    /\ Controller
    /\ Log

\* Mutant of restart_proceeds: the timer callback never restarts.
restart_never(stp) == FALSE

\* Whether _do_restart goes on to call start().
restart_proceeds(stp) == ~stp

\* GamescopeManager._do_restart, the callback of the timeout source s.
do_restart(s) ==
    /\ impl = "glib"
    /\ s \in sources /\ s.kind = "restart"
    /\ restart_source_id' = 0
    /\ sources' = sources \ {s}
    /\ stop_seen' = stop_seen \ {s.id}
    /\ LET o == [Op("do_restart") EXCEPT !.fired = s,
                                         !.fired_stop_seen = s.id \in stop_seen]
       IN IF restart_proceeds(stopping)
          THEN \E ok \in BOOLEAN :
                  /\ ok => Len(children) < MaxChildren
                  /\ start_body([o EXCEPT !.logged = <<"auto_restarting">>], ok)
          ELSE /\ out' = o
               /\ UNCHANGED <<process, stopping, children, last_running>>
    /\ UNCHANGED <<impl, auto_restart>>
    /\ UNCHANGED asyncio_vars
    /\ Controller
    /\ Log

\* SettingsDialog._on_save: the user saves the auto-restart check box.
on_save(b) ==
    /\ impl = "glib"
    /\ auto_restart # b
    /\ auto_restart' = b
    /\ out' = Op("on_save")
    /\ UNCHANGED <<impl, children, stop_seen, last_running>>
    /\ UNCHANGED glib_vars
    /\ UNCHANGED asyncio_vars
    /\ Controller
    /\ Log

\* ------------------------------------------------------- GamescopeProcess
\* GamescopeProcess.start up to its first suspension.  After the is_running
\* check the coroutine enters asyncio.create_subprocess_exec, which forks the
\* child before it first suspends: a spawn that fails (ok false) raises at
\* once into the except branch, a spawn that succeeds leaves the coroutine
\* suspended with the child alive and self._process not yet assigned.
p_start(ok) ==
    /\ impl = "asyncio"
    /\ IF p_is_running
       THEN /\ out' = [Op("p_start") EXCEPT !.was_running = TRUE,
                                            !.start_called = TRUE,
                                            !.logged = <<"already_running">>]
            /\ UNCHANGED <<children, p_process, p_stopping, spawning>>
       ELSE /\ p_stopping' = FALSE
            /\ IF ok
               THEN /\ Len(children) < MaxProcChildren
                    /\ Cardinality(spawning) < MaxSpawning
                    /\ children' = Append(children, NewChild)
                    /\ spawning' = spawning \cup {Len(children) + 1}
                    /\ out' = [Op("p_start") EXCEPT !.start_called = TRUE,
                                                    !.logged = <<"starting">>]
                    /\ UNCHANGED p_process
               ELSE /\ p_process' = 0
                    /\ out' = [Op("p_start") EXCEPT
                                  !.start_called = TRUE,
                                  !.failed = TRUE,
                                  !.logged = <<"starting", "failed_to_start">>,
                                  !.emitted = <<Signal("stopped", SpawnFailedCode,
                                                       FALSE)>>]
                    /\ UNCHANGED <<children, spawning>>
    /\ UNCHANGED <<impl, auto_restart, stop_tasks, stop_seen, last_running>>
    /\ UNCHANGED glib_vars
    /\ Controller
    /\ Log

\* GamescopeProcess.start resumed from create_subprocess_exec with child c:
\* assign self._process, call on_started, start the reader, await c's exit.
p_spawned(c) ==
    /\ impl = "asyncio"
    /\ c \in spawning
    /\ spawning' = spawning \ {c}
    /\ p_process' = c
    /\ last_running' = c
    /\ children' = [children EXCEPT ![c].reader = "created"]
    /\ out' = [Op("p_spawned") EXCEPT !.spawned = c,
                                      !.emitted = <<Signal("started", 0, TRUE)>>]
    /\ UNCHANGED <<impl, auto_restart, p_stopping, stop_tasks, stop_seen>>
    /\ UNCHANGED glib_vars
    /\ Controller
    /\ Log

\* The event loop reaps child c (its returncode is set) and wakes the
\* coroutines awaiting c.wait(): GamescopeProcess.start finishes its try
\* block, and every stop() awaiting c returns.
p_exit(c) ==
    /\ impl = "asyncio"
    /\ c \in ChildIds \ spawning
    /\ ~children[c].alive /\ ~children[c].observed
    /\ children' = [children EXCEPT ![c].observed = TRUE]
    /\ p_process' = 0
    /\ last_running' = IF last_running = c THEN 0 ELSE last_running
    /\ stop_tasks' = [t \in {u \in BagToSet(stop_tasks) : u.child # c} |-> stop_tasks[t]]
    /\ out' = [Op("p_exit") EXCEPT
                  !.child = c,
                  !.was_running = p_is_running,
                  !.logged = <<"exited">>,
                  !.emitted = <<Signal("stopped", children[c].code, FALSE)>>]
    /\ UNCHANGED <<impl, auto_restart, p_stopping, spawning,
                   stop_seen>>
    /\ UNCHANGED glib_vars
    /\ Controller
    /\ Log

\* GamescopeProcess.stop up to its first await (wait_for on the child's exit).
p_stop ==
    /\ impl = "asyncio"
    /\ IF ~p_is_running
       THEN /\ out' = Op("p_stop")
            /\ UNCHANGED <<children, p_stopping, stop_tasks>>
       ELSE /\ BagCardinality(stop_tasks) < MaxStops
            /\ p_stopping' = TRUE
            /\ children' = Signalled(p_process)
            /\ stop_tasks' = stop_tasks (+) SetToBag({StopTask("grace", p_process)})
            /\ out' = [Op("p_stop") EXCEPT !.was_running = TRUE,
                                           !.logged = <<"stopping">>,
                                           !.term = p_process,
                                           !.armed = 1]
    /\ UNCHANGED <<impl, auto_restart, p_process, spawning, stop_seen, last_running>>
    /\ UNCHANGED glib_vars
    /\ Controller
    /\ Log

\* GamescopeProcess.stop resumed by asyncio.TimeoutError: kill whatever
\* self._process now is and await its exit.  With self._process None the call
\* raises and the coroutine ends.
p_stop_timeout(t) ==
    /\ impl = "asyncio"
    /\ t \in BagToSet(stop_tasks) /\ t.pc = "grace"
    /\ IF p_process # 0
       THEN \E code \in ExitCodes :
               /\ children' = Killed(p_process, code)
               /\ stop_tasks' = (stop_tasks (-) SetToBag({t}))
                                  (+) SetToBag({StopTask("kill_wait", p_process)})
               /\ out' = [Op("p_stop_timeout") EXCEPT
                             !.fired = [id |-> 0, kind |-> "force_kill",
                                        child |-> t.child],
                             !.killed = p_process,
                             !.logged = <<"force_killing">>]
       ELSE /\ stop_tasks' = stop_tasks (-) SetToBag({t})
            /\ out' = [Op("p_stop_timeout") EXCEPT
                          !.fired = [id |-> 0, kind |-> "force_kill",
                                     child |-> t.child],
                          !.raised = TRUE,
                          !.logged = <<"force_killing">>]
            /\ UNCHANGED children
    /\ UNCHANGED <<impl, auto_restart, p_process, p_stopping, spawning,
                   stop_seen, last_running>>
    /\ UNCHANGED glib_vars
    /\ Controller
    /\ Log

\* ------------------------------------------------------------ environment
\* A running child ends by itself (a crash, a normal exit, or its reaction
\* to SIGTERM) with exit code code.
child_exit(c, code) ==
    /\ c \in ChildIds
    /\ children[c].alive
    /\ children' = [children EXCEPT ![c].alive = FALSE, ![c].code = code]
    /\ out' = [Op("child_exit") EXCEPT !.child = c]
    /\ UNCHANGED <<impl, auto_restart, stop_seen, last_running>>
    /\ UNCHANGED glib_vars
    /\ UNCHANGED asyncio_vars
    /\ Controller
    /\ Log

Next ==
    \/ start
    \/ stop
    \/ \E s \in sources : force_kill(s)
    \/ \E c \in ChildIds : on_process_exit(c)
    \/ \E s \in sources : do_restart(s)
    \/ \E b \in BOOLEAN : on_save(b)
    \/ \E ok \in BOOLEAN : p_start(ok)
    \/ \E c \in ChildIds : p_spawned(c)
    \/ \E c \in ChildIds : p_exit(c)
    \/ p_stop
    \/ \E t \in BagToSet(stop_tasks) : p_stop_timeout(t)
    \/ \E c \in ChildIds, code \in ExitCodes : child_exit(c, code)

Spec == Init /\ [][Next]_vars

\* ------------------------------------------------------------------- quit
\* StatusNotifierItem.unregister: both objects leave the bus.
unregistered(b) == [b EXCEPT !.exported = {}]

\* The end of TrayscopeApp._on_quit: unregister() and quit(), which ends
\* the main loop, so that no timeout and no callback is dispatched any more.
quit_now ==
    /\ bus' = unregistered(bus)
    /\ app' = "exited"

\* TrayscopeApp._on_quit up to dialog.run(): with no child running it quits
\* at once; otherwise it asks and waits in the dialog's own main loop, which
\* goes on dispatching timeouts and callbacks.
on_quit ==
    /\ impl = "glib"
    /\ app = "running"
    /\ out' = Op("on_quit")
    /\ IF is_running
       THEN /\ app' = "quit_dialog"
            /\ UNCHANGED bus
       ELSE quit_now
    /\ UNCHANGED <<impl, children, auto_restart, stop_seen, last_running>>
    /\ UNCHANGED glib_vars
    /\ UNCHANGED asyncio_vars
    /\ UNCHANGED <<status, revision, menu, settings, config_attached,
                   pending, tout, signalled>>
    /\ Log

\* TrayscopeApp._on_quit from the answer of the dialog on: on Yes (yes) it
\* calls gamescope.stop(), then it unregisters and quits.
quit_response(yes) ==
    /\ impl = "glib"
    /\ app = "quit_dialog"
    /\ IF yes
       THEN /\ IF ~is_running THEN stop_idle ELSE stop_running
            /\ stop_seen' =
                  (stop_seen \cup {s.id : s \in {t \in sources : t.kind = "restart"}})
                    \cap {s.id : s \in sources'}
       ELSE /\ out' = Op("on_quit")
            /\ UNCHANGED <<children, stopping, restart_source_id, sources,
                           stop_seen>>
    /\ quit_now
    /\ UNCHANGED <<impl, auto_restart, process, last_running>>
    /\ UNCHANGED asyncio_vars
    /\ UNCHANGED <<status, revision, menu, settings, config_attached,
                   pending, tout, signalled>>
    /\ Log

\* The application with its supervisor: while the main loop runs, the
\* supervisor's handlers are dispatched; a child lives on its own and may
\* end after the application has.
QuitNext ==
    \/ app # "exited" /\ Next
    \/ on_quit
    \/ \E yes \in BOOLEAN : quit_response(yes)
    \/ /\ app = "exited"
       /\ \E c \in ChildIds, code \in ExitCodes : child_exit(c, code)

QuitSpec == Init /\ [][QuitNext]_vars

\* The scheduling of the main loop while it runs: a due timer is dispatched,
\* an exited child is reaped, a spawn request is answered.  Nothing obliges
\* the user to answer the dialog or the child to exit by itself.
QuitFairness ==
    /\ WF_vars(app # "exited" /\ \E s \in sources : force_kill(s))
    /\ WF_vars(app # "exited" /\ \E s \in sources : do_restart(s))
    /\ WF_vars(app # "exited" /\ \E c \in ChildIds : on_process_exit(c))
    /\ WF_vars(app # "exited" /\ \E c \in ChildIds : p_spawned(c))
    /\ WF_vars(app # "exited" /\ \E c \in ChildIds : p_exit(c))
    /\ WF_vars(app # "exited"
                 /\ \E t \in BagToSet(stop_tasks) : p_stop_timeout(t))

QuitFairSpec == QuitSpec /\ QuitFairness

\* ------------------------------------------------------------ read loops
\* GamescopeManager._on_line_read, the callback of the read pending on the
\* output of child c, finishing with result r.  A line is logged with its
\* newline put back and the next read is issued; on None nothing is issued;
\* a GLib.Error (an I/O error, or bytes that are not UTF-8) is passed over.
on_line_read(c, r) ==
    /\ impl = "glib"
    /\ c \in ChildIds /\ children[c].reader = "waiting"
    /\ LET got == r.kind = "line" /\ is_utf8(r.raw)
       IN  /\ children' = [children EXCEPT
                             ![c] = IF got THEN @ ELSE ReadEnded(@)]
           /\ out' = [Op("on_line_read") EXCEPT
                         !.child = c,
                         !.read = r.raw,
                         !.logged = IF got
                                    THEN <<add_newline(strip_newline(r.raw))>>
                                    ELSE <<>>,
                         !.emitted = read_signals(r)]
    /\ UNCHANGED <<impl, auto_restart, stop_seen, last_running>>
    /\ UNCHANGED glib_vars
    /\ UNCHANGED asyncio_vars
    /\ Controller
    /\ Log

\* Another read loop has a read pending on the pipe of child s.
Busy(s, c) ==
    \E d \in ChildIds \ {c} :
       children[d].reader = "waiting" /\ children[d].stream = s

\* One pass of the loop of GamescopeProcess._read_output up to its await:
\* self._process.stdout is evaluated anew, which raises when self._process
\* is None, and readline() raises when another loop already waits for data
\* on that pipe and none is buffered (buffered); either exception ends the
\* loop.
next_read(child, c, buffered) ==
    IF p_process = 0 THEN ReadEnded(child)
    ELSE IF Busy(p_process, c) /\ ~buffered THEN ReadEnded(child)
    ELSE Reading(child, p_process)

\* The task of GamescopeProcess._read_output created for child c runs for
\* the first time: it returns if self._process is None.
p_read_output(c, buffered) ==
    /\ impl = "asyncio"
    /\ c \in ChildIds /\ children[c].reader = "created"
    /\ children' = [children EXCEPT ![c] = next_read(@, c, buffered)]
    /\ out' = [Op("p_read_output") EXCEPT !.child = c]
    /\ UNCHANGED <<impl, auto_restart, stop_seen, last_running>>
    /\ UNCHANGED glib_vars
    /\ UNCHANGED asyncio_vars
    /\ Controller
    /\ Log

\* The read loop of child c resumed from readline() with result r: a line is
\* decoded and logged and the loop goes round; b"" or an exception ends it.
p_line_read(c, r, buffered) ==
    /\ impl = "asyncio"
    /\ c \in ChildIds /\ children[c].reader = "waiting"
    /\ children' = [children EXCEPT
                      ![c] = IF r.kind = "line" THEN next_read(@, c, buffered)
                             ELSE ReadEnded(@)]
    /\ out' = [Op("p_line_read") EXCEPT
                  !.child = c,
                  !.read = r.raw,
                  !.logged = IF r.kind = "line" THEN <<decode_replace(r.raw)>>
                             ELSE <<>>,
                  !.emitted = read_signals(r)]
    /\ UNCHANGED <<impl, auto_restart, stop_seen, last_running>>
    /\ UNCHANGED glib_vars
    /\ UNCHANGED asyncio_vars
    /\ Controller
    /\ Log

\* The supervisor together with the read loops on its children's output.
\* Whether data is buffered matters only when the pipe has another waiter.
Buffered(c) ==
    IF p_process # 0 /\ Busy(p_process, c) THEN BOOLEAN ELSE {FALSE}

ReadStep ==
    \/ \E c \in ChildIds, r \in ReadResults : on_line_read(c, r)
    \/ \E c \in ChildIds : \E b \in Buffered(c) : p_read_output(c, b)
    \/ \E c \in ChildIds, r \in ReadResults :
          \E b \in Buffered(c) : p_line_read(c, r, b)

LogInit == Constructed(Deque(LogCapacity))

LogNext == (Next /\ Len(children') <= MaxStreams) \/ ReadStep

LogSpec == LogInit /\ [][LogNext]_vars

\* ------------------------------------------------------------ log buffer
\* The n-th line handed to _log.
Line(n) == ToString(n)

\* How many lines have been handed to _log, read off the line emitted last.
Appended ==
    IF out.op # "log" THEN 0
    ELSE CHOOSE n \in 1..(LOG_BUFFER_SIZE + MaxOverflow) :
            Line(n) = out.logged[1]

\* GamescopeManager._log(text) on a buffer of the capacity of the source:
\* the line is appended and emitted as 'log-output'.
log(text) ==
    /\ log_buffer' = deque_append(log_buffer, text)
    /\ out' = [Op("log") EXCEPT !.logged = <<text>>]
    /\ UNCHANGED <<impl, children, auto_restart, stop_seen, last_running>>
    /\ UNCHANGED glib_vars
    /\ UNCHANGED asyncio_vars
    /\ Controller

BufferInit == Constructed(Deque(LOG_BUFFER_SIZE)) /\ impl = "glib"

BufferNext ==
    /\ Appended < LOG_BUFFER_SIZE + MaxOverflow
    /\ log(Line(Appended + 1))

BufferSpec == BufferInit /\ [][BufferNext]_vars

\* ------------------------------------------------------ tray server calls
\* The arguments set_status is called with.
StatusArgs ==
    IF impl = "glib" THEN {"active", "passive", "needs-attention", "unknown"}
    ELSE {"Active", "Passive", "NeedsAttention"}

\* GetLayout arguments (parentId, depth): the root at every kind of depth, a
\* submenu of StatusNotifierService, one of its members, and an id in no menu.
LayoutRequests ==
    {<<0, 0 - 1>>, <<0, 0>>, <<0, 1>>, <<0, 2>>,
     <<10, 0 - 1>>, <<10, 0>>, <<10, 1>>, <<11, 1>>, <<99, 0 - 1>>}
\* GetGroupProperties arguments: known and unknown ids mixed, unknown ids only.
GroupIds == {<<1, 99, 3>>, <<99, 98>>}
\* GetProperty arguments (id, name).
PropertyRequests ==
    {<<1, "label">>, <<1, "bogus">>, <<3, "type">>, <<3, "label">>,
     <<99, "label">>}
\* Event arguments (id, eventId): enabled and disabled items, a separator, a
\* submenu header, menu actions, an id in no menu, and another event kind.
EventRequests ==
    {<<1, "clicked">>, <<2, "clicked">>, <<3, "clicked">>, <<10, "clicked">>,
     <<11, "clicked">>, <<22, "clicked">>, <<31, "clicked">>,
     <<99, "clicked">>, <<1, "hovered">>}

\* AboutToShow arguments: the root, an item, a submenu, an id in no menu.
AboutToShowIds == {0, 1, 10, 99}

\* set_status, called by whoever owns the server.
set_status(arg) ==
    LET t == set_status_on(TrayModel, arg)
    IN  /\ t.revision <= MaxRevision
        /\ TrayApply(t, [TrayOp("set_status") EXCEPT !.req = <<arg>>])
        /\ UNCHANGED <<settings, config_attached, pending>>
        /\ UNCHANGED <<sup_vars, bus, app>>

\* StatusNotifierService.set_config (tray.py): attaches the shared Config.
set_config ==
    /\ impl = "asyncio"
    /\ config_attached' = TRUE
    /\ tout' = TrayOp("set_config")
    /\ UNCHANGED <<status, revision, menu, settings, pending,
                   signalled>>
    /\ UNCHANGED <<sup_vars, bus, app>>

\* SettingsDialog._on_save (settings.py), as the tray sees it: the shared
\* configuration changes and nobody tells the tray.
settings_saved(s) ==
    /\ impl = "asyncio"
    /\ settings' = s
    /\ tout' = TrayOp("on_save")
    /\ UNCHANGED <<status, revision, menu, config_attached,
                   pending, signalled>>
    /\ UNCHANGED <<sup_vars, bus, app>>

\* GetLayout of both variants.
GetLayout(parent_id, depth) ==
    /\ tout' = [TrayOp("GetLayout") EXCEPT
                  !.req = <<parent_id, depth>>,
                  !.reply = [revision |-> revision,
                             layout |->
                               IF impl = "glib"
                               THEN notifier_build_layout(menu_items, parent_id,
                                                          depth)
                               ELSE build_layout(menu_items, root_items,
                                                 parent_id, depth)]]
    /\ UNCHANGED <<status, revision, menu, settings,
                   config_attached, pending, signalled>>
    /\ UNCHANGED <<sup_vars, bus, app>>

\* DBusMenuInterface.GetGroupProperties (tray.py): one entry per requested id.
service_group_properties(items, ids) ==
    [k \in 1..Len(ids) |-> <<ids[k], get_item_props(items, ids[k])>>]

\* GetGroupProperties of StatusNotifierItem: only the ids in _menu_items.
notifier_group_properties(items, ids) ==
    LET known == SelectSeq(ids, LAMBDA i : i \in DOMAIN items)
    IN  [k \in 1..Len(known) |->
           <<known[k], get_item_properties(items, known[k])>>]

GetGroupProperties(ids) ==
    /\ tout' = [TrayOp("GetGroupProperties") EXCEPT
                  !.req = ids,
                  !.reply = IF impl = "glib"
                            THEN notifier_group_properties(menu_items, ids)
                            ELSE service_group_properties(menu_items, ids)]
    /\ UNCHANGED <<status, revision, menu, settings,
                   config_attached, pending, signalled>>
    /\ UNCHANGED <<sup_vars, bus, app>>

\* DBusMenuInterface.GetProperty (tray.py): props.get(name, Variant("s", "")).
service_get_property(items, id, name) ==
    LET props == get_item_props(items, id)
    IN  [reply |-> IF name \in DOMAIN props THEN props[name]
                   ELSE Variant("s", ""),
         error |-> ""]

\* GetProperty of StatusNotifierItem: INVALID_ARGS for a name not in props.
notifier_get_property(items, id, name) ==
    LET props == get_item_properties(items, id)
    IN  IF name \in DOMAIN props
        THEN [reply |-> props[name], error |-> ""]
        ELSE [reply |-> <<>>, error |-> "INVALID_ARGS"]

GetProperty(id, name) ==
    LET r == IF impl = "glib" THEN notifier_get_property(menu_items, id, name)
             ELSE service_get_property(menu_items, id, name)
    IN  /\ tout' = [TrayOp("GetProperty") EXCEPT
                      !.req = <<id, name>>,
                      !.reply = r.reply, !.error = r.error]
        /\ UNCHANGED <<status, revision, menu, settings,
                       config_attached, pending, signalled>>
        /\ UNCHANGED <<sup_vars, bus, app>>

\* Mutant of about_to_show: an item of the menu asks for an update.
about_to_show_known(items, id) == id \in DOMAIN items

\* What AboutToShow answers in both variants: no update needed.
about_to_show(items, id) == FALSE

\* AboutToShow of both variants.
AboutToShow(id) ==
    /\ tout' = [TrayOp("AboutToShow") EXCEPT
                  !.req = <<id>>,
                  !.reply = Variant("b", about_to_show(menu_items, id))]
    /\ UNCHANGED <<status, revision, menu, settings,
                   config_attached, pending, signalled>>
    /\ UNCHANGED <<sup_vars, bus, app>>

\* Mutant of clickable: a disabled item also answers a click.
clickable_when_disabled(items, id) ==
    id \in DOMAIN items /\ items[id].callback # NoCallback

\* The test of _handle_click and of the Event branch: the id is in the menu
\* and its item has a callback and is enabled.
clickable(items, id) ==
    id \in DOMAIN items /\ items[id].callback # NoCallback /\ items[id].enabled

\* The settings a menu action of StatusNotifierService writes.
settings_after(s, cb) ==
    CASE cb.fn = "set_resolution" -> [s EXCEPT !.render = cb.arg]
      [] cb.fn = "set_filter" -> [s EXCEPT !.filter = cb.arg]
      [] cb.fn = "toggle_hdr" -> [s EXCEPT !.hdr_enabled = ~@]
      [] cb.fn = "toggle_vrr" -> [s EXCEPT !.adaptive_sync = ~@]
      [] OTHER -> s

\* _set_resolution, _set_filter, _toggle_hdr, _toggle_vrr (tray.py).
MenuActions == {"set_resolution", "set_filter", "toggle_hdr", "toggle_vrr"}

\* Mutant of rebuilt: the Start and Stop items of the previous menu are kept.
rebuilt_keeping_lifecycle(t, c) == [t EXCEPT !.menu.cfg = c]

\* self._rebuild_menu() inside a menu action: the dictionary is built anew
\* from the settings c.
rebuilt(t, c) == [t EXCEPT !.menu = Built(c)]

\* Event of DBusMenuInterface (tray.py): the callback runs inside the call.
\* _do_start, _do_stop and _do_quit hand over to the owner's callbacks; a menu
\* action writes the configuration, rebuilds the menu and notifies, if a
\* configuration is attached.
service_event(id, event_id) ==
    LET hit == event_id = "clicked" /\ clickable(menu_items, id)
        cb == IF hit THEN menu_items[id].callback ELSE NoCallback
        acts == hit /\ cb.fn \in MenuActions /\ config_attached
        s == IF acts THEN settings_after(settings, cb) ELSE settings
        t == IF acts
             THEN notify_layout_update(
                      rebuilt(TrayModel, settings_read(config_attached, s)))
             ELSE TrayModel
    IN  /\ t.revision <= MaxRevision
        /\ settings' = s
        /\ TrayApply(t, [TrayOp("Event") EXCEPT
                           !.req = <<id, event_id>>,
                           !.invoked = IF hit THEN <<cb>> ELSE <<>>])
        /\ UNCHANGED <<config_attached, pending>>

\* Event of StatusNotifierItem: the callback is handed to GLib.idle_add.
notifier_event(id, event_id) ==
    LET hit == event_id = "clicked" /\ clickable(menu_items, id)
        cb == IF hit THEN menu_items[id].callback ELSE NoCallback
    IN  /\ hit => Len(pending) < MaxPending
        /\ pending' = IF hit THEN Append(pending, cb) ELSE pending
        /\ tout' = [TrayOp("Event") EXCEPT
                      !.req = <<id, event_id>>,
                      !.scheduled = IF hit THEN <<cb>> ELSE <<>>]
        /\ UNCHANGED <<status, revision, menu, settings,
                       config_attached, signalled>>

Event(id, event_id) ==
    /\ IF impl = "glib" THEN notifier_event(id, event_id)
       ELSE service_event(id, event_id)
    /\ UNCHANGED <<sup_vars, bus, app>>

\* The GLib main loop runs an idle callback: it returns None, so it runs once.
idle_dispatch ==
    /\ impl = "glib"
    /\ pending # <<>>
    /\ pending' = Tail(pending)
    /\ tout' = [TrayOp("idle") EXCEPT !.invoked = <<Head(pending)>>]
    /\ UNCHANGED <<status, revision, menu, settings,
                   config_attached, signalled>>
    /\ UNCHANGED <<sup_vars, bus, app>>

\* The tray server on its own: the supervisor stays as constructed and the
\* owner's callbacks are only recorded.
TrayInit ==
    /\ impl \in {"glib", "asyncio"}
    /\ children = <<>>
    /\ auto_restart = FALSE
    /\ process = 0
    /\ stopping = FALSE
    /\ restart_source_id = 0
    /\ sources = {}
    /\ p_process = 0
    /\ p_stopping = FALSE
    /\ spawning = {}
    /\ stop_tasks = EmptyBag
    /\ out = NoOut
    /\ stop_seen = {}
    /\ last_running = 0
    /\ log_buffer = Deque(0)
    /\ \E s \in (IF impl = "glib" THEN {FallbackSettings} ELSE SavedSettings) :
          TrayConstructed(s)
    /\ bus = Started
    /\ app = "running"

TrayNext ==
    \/ \E arg \in StatusArgs : set_status(arg)
    \/ set_config
    \/ \E s \in SavedSettings : settings_saved(s)
    \/ \E r \in LayoutRequests : GetLayout(r[1], r[2])
    \/ \E ids \in GroupIds : GetGroupProperties(ids)
    \/ \E r \in PropertyRequests : GetProperty(r[1], r[2])
    \/ \E r \in EventRequests : Event(r[1], r[2])
    \/ \E id \in AboutToShowIds : AboutToShow(id)
    \/ idle_dispatch

TraySpec == TrayInit /\ [][TrayNext]_vars

\* The GLib main loop runs the idle callbacks it was handed.
TrayFairSpec == TraySpec /\ WF_vars(idle_dispatch)

\* ---------------------------------------------------------------- startup
\* StatusNotifierItem.register (status_notifier.py), called by do_startup:
\* connect, register both objects, ask for the bus name.
register ==
    /\ impl = "glib"
    /\ bus.pc = "constructed"
    /\ bus' = [bus EXCEPT !.pc = "name_requested", !.exported = ObjectPaths]
    /\ tout' = TrayOp("register")
    /\ UNCHANGED <<status, revision, menu, settings, config_attached, pending,
                   signalled>>
    /\ UNCHANGED <<sup_vars, app>>

\* StatusNotifierItem._on_name_lost: the name has another owner; the request
\* stays queued on the bus.
on_name_lost ==
    /\ impl = "glib"
    /\ bus.pc = "name_requested"
    /\ bus' = [bus EXCEPT !.pc = "queued"]
    /\ tout' = TrayOp("on_name_lost")
    /\ UNCHANGED <<status, revision, menu, settings, config_attached, pending,
                   signalled>>
    /\ UNCHANGED <<sup_vars, app>>

\* Mutant of watcher_failure: the failure takes the interfaces off the bus.
watcher_failure_unexports(b) ==
    [b EXCEPT !.warnings = @ + 1, !.pc = "done", !.exported = {}]

\* The except branch of both servers: print the failure and go on.
watcher_failure(b) == [b EXCEPT !.warnings = @ + 1, !.pc = "done"]

\* The watcher's answer ends the call: ok, or the failure is printed.
watcher_answer(b, ok) ==
    IF ok THEN [b EXCEPT !.accepted = TRUE, !.pc = "done"]
    ELSE watcher_failure(b)

\* StatusNotifierItem._on_name_acquired: call RegisterStatusNotifierItem with
\* bus_name, synchronously; ok is whether the call succeeds.
on_name_acquired(ok) ==
    /\ impl = "glib"
    /\ bus.pc \in {"name_requested", "queued"}
    /\ bus' = watcher_answer([bus EXCEPT !.name = Identity,
                                         !.registrations = Append(@, Identity)],
                             ok)
    /\ tout' = TrayOp("on_name_acquired")
    /\ UNCHANGED <<status, revision, menu, settings, config_attached, pending,
                   signalled>>
    /\ UNCHANGED <<sup_vars, app>>

\* StatusNotifierService.connect (tray.py) up to its first await, the
\* connection to the session bus.
connect ==
    /\ impl = "asyncio"
    /\ bus.pc = "constructed"
    /\ bus' = [bus EXCEPT !.pc = "connecting"]
    /\ tout' = TrayOp("connect")
    /\ UNCHANGED <<status, revision, menu, settings, config_attached, pending,
                   signalled>>
    /\ UNCHANGED <<sup_vars, app>>

\* connect resumed with the connection: keep the unique name, export both
\* interfaces, and await the introspection of the watcher.
connected ==
    /\ impl = "asyncio"
    /\ bus.pc = "connecting"
    /\ bus' = [bus EXCEPT !.pc = "introspecting", !.name = Identity,
                          !.exported = ObjectPaths]
    /\ tout' = TrayOp("connected")
    /\ UNCHANGED <<status, revision, menu, settings, config_attached, pending,
                   signalled>>
    /\ UNCHANGED <<sup_vars, app>>

\* connect resumed from introspect: with the watcher reachable (ok) it issues
\* call_register_status_notifier_item(unique name) and awaits the answer.
introspected(ok) ==
    /\ impl = "asyncio"
    /\ bus.pc = "introspecting"
    /\ bus' = IF ok
              THEN [bus EXCEPT !.pc = "registering",
                               !.registrations = Append(@, bus.name)]
              ELSE watcher_failure(bus)
    /\ tout' = TrayOp("introspected")
    /\ UNCHANGED <<status, revision, menu, settings, config_attached, pending,
                   signalled>>
    /\ UNCHANGED <<sup_vars, app>>

\* connect resumed from the registration call.
registered(ok) ==
    /\ impl = "asyncio"
    /\ bus.pc = "registering"
    /\ bus' = watcher_answer(bus, ok)
    /\ tout' = TrayOp("registered")
    /\ UNCHANGED <<status, revision, menu, settings, config_attached, pending,
                   signalled>>
    /\ UNCHANGED <<sup_vars, app>>

\* The steps of the startup.
StartupStep ==
    \/ register
    \/ on_name_lost
    \/ \E ok \in BOOLEAN : on_name_acquired(ok)
    \/ connect
    \/ connected
    \/ \E ok \in BOOLEAN : introspected(ok)
    \/ \E ok \in BOOLEAN : registered(ok)

\* A client calls an exported interface: both loops serve calls while the
\* startup is under way, from the moment the objects are on the bus.
StartupCall ==
    /\ bus.exported = ObjectPaths
    /\ \/ \E r \in LayoutRequests : GetLayout(r[1], r[2])
       \/ \E r \in PropertyRequests : GetProperty(r[1], r[2])

\* The server from its construction on.
StartupInit ==
    /\ impl \in {"glib", "asyncio"}
    /\ children = <<>>
    /\ auto_restart = FALSE
    /\ process = 0
    /\ stopping = FALSE
    /\ restart_source_id = 0
    /\ sources = {}
    /\ p_process = 0
    /\ p_stopping = FALSE
    /\ spawning = {}
    /\ stop_tasks = EmptyBag
    /\ out = NoOut
    /\ stop_seen = {}
    /\ last_running = 0
    /\ log_buffer = Deque(0)
    /\ TrayConstructed(FallbackSettings)
    /\ bus = Unconnected
    /\ app = "running"

StartupNext == StartupStep \/ StartupCall

StartupSpec == StartupInit /\ [][StartupNext]_vars

\* A handler or coroutine that can run does run; the bus decides whether the
\* name is ever acquired, so the callbacks about the name get no fairness.
StartupFairSpec ==
    StartupSpec /\ WF_vars(register) /\ WF_vars(connect) /\ WF_vars(connected)
                /\ WF_vars(\E ok \in BOOLEAN : introspected(ok))
                /\ WF_vars(\E ok \in BOOLEAN : registered(ok))

\* ---------------------------------------------------------------- claims
RestartSources == {s \in sources : s.kind = "restart"}

\* The handle refers to a child whose exit has not been observed.
Running ==
    IF impl = "glib"
    THEN process # 0
    ELSE p_process # 0 /\ ~children[p_process].observed

\* C1: once stop() has been called after a crash scheduled a restart, that
\* restart timer never spawns a new child; as the claim states it.
C1_NoRestartAfterStop ==
    (out.op = "do_restart" /\ out.fired_stop_seen) => out.spawned = 0

\* The exit of a crashed child schedules one restart timer.
C2_Scheduled ==
    (/\ out.op = "on_process_exit"
     /\ children[out.child].code # 0
     /\ auto_restart
     /\ ~children[out.child].stop_called)
    => /\ out.scheduled # 0
       /\ Cardinality({s \in RestartSources : s.child = out.child}) = 1

\* A restart timer that saw no stop() calls start() once and is detached.
C2_Fired ==
    (out.op = "do_restart" /\ ~out.fired_stop_seen)
    => /\ out.start_called
       /\ out.fired \notin sources

\* No exit has two restart timers.
C2_AtMostOne ==
    \A c \in ChildIds : Cardinality({s \in RestartSources : s.child = c}) <= 1

\* A restart timer leaves the loop only by firing or in an effective stop().
C2_Kept ==
    \A s \in RestartSources :
       s \notin sources' =>
          \/ out'.op = "do_restart" /\ out'.fired = s
          \/ out'.op = "stop" /\ out'.was_running

\* C2: a crash (exit code # 0, auto-restart enabled, no stop() on that child)
\* schedules exactly one restart timer, and a restart timer that saw no
\* stop() call leads to exactly one start() attempt when it fires: it is
\* never lost (a restart timer leaves the loop only by firing or in a stop()
\* call) and never fires twice (it is detached when it fires).
C2_ExactlyOneRestart ==
    /\ [](C2_Scheduled /\ C2_Fired /\ C2_AtMostOne)
    /\ [][C2_Kept]_vars

\* C2 witness: a restart timer that saw no stop() fired and spawned a child.
C2_Witness ==
    out.op = "do_restart" /\ ~out.fired_stop_seen /\ out.spawned # 0

\* C3: a restart is scheduled only by the exit of a child that stop() was not
\* called on, with auto-restart enabled and a nonzero exit code.
C3_RestartOnlyOnCrash ==
    /\ out.scheduled # 0 =>
          /\ out.op = "on_process_exit"
          /\ ~children[out.child].stop_called
          /\ auto_restart
          /\ children[out.child].code # 0
    /\ \A s \in RestartSources :
          /\ children[s.child].observed
          /\ ~children[s.child].stop_called
          /\ children[s.child].code # 0
    /\ Cardinality(RestartSources) > 0 => impl = "glib"

\* C3 witness: the exit of a crashed child scheduled a restart.
C3_Witness ==
    out.op = "on_process_exit" /\ out.scheduled # 0

\* The scheduling both loops guarantee: a due timer is dispatched, an exited
\* child is reaped and its waiters are woken, a spawn request is answered.
\* Nothing obliges the user to act or the child to exit by itself.
Fairness ==
    /\ WF_vars(\E s \in sources : force_kill(s))
    /\ WF_vars(\E s \in sources : do_restart(s))
    /\ WF_vars(\E c \in ChildIds : on_process_exit(c))
    /\ WF_vars(\E c \in ChildIds : p_spawned(c))
    /\ WF_vars(\E c \in ChildIds : p_exit(c))
    /\ WF_vars(\E t \in BagToSet(stop_tasks) : p_stop_timeout(t))

FairSpec == Init /\ [][Next]_vars /\ Fairness

\* The last handler was an effective stop(): a child was running.
StopIssued == out.op \in {"stop", "p_stop"} /\ out.was_running

\* The supervisor has just become Idle: an exit was handled, stopped was
\* notified and is_running() is false.
IdleReached ==
    /\ out.op \in {"on_process_exit", "p_exit"}
    /\ \E i \in 1..Len(out.emitted) : out.emitted[i].sig = "stopped"
    /\ ~Running

\* C4: stop() called while a child is running always eventually reaches Idle
\* (is_running false, stopped notified), whether or not the child cooperates.
C4_StopReachesIdle == StopIssued ~> IdleReached

\* C4 witness: Idle was reached by handling the exit of a child that stop()
\* had signalled.
C4_Witness ==
    IdleReached /\ out.was_running /\ children[out.child].stop_called

\* C5: a grace timer armed by one stop() delivers its forceful kill to no
\* process other than the child that stop() signalled; as the claim states it.
C5_GraceKillOnlySignalled ==
    (out.op = "force_kill" /\ out.killed # 0) => out.killed = out.fired.child

\* What a start() call made while a child is running does.
C6_NoOp ==
    (Running /\ out'.start_called)
    => /\ children' = children
       /\ process' = process /\ p_process' = p_process
       /\ spawning' = spawning
       /\ stopping' = stopping /\ p_stopping' = p_stopping
       /\ out'.spawned = 0 /\ ~out'.failed
       /\ out'.emitted = <<>>
       /\ out'.was_running
       /\ out'.logged # <<>> /\ out'.logged[Len(out'.logged)] = "already_running"

\* C6: start() called while a child is running spawns nothing, emits no
\* notification, leaves the handle and the children as they are, and logs
\* the "already running" warning.
C6_StartNoOpWhenRunning == [][C6_NoOp]_vars

\* C6 witness: a second start() right after the one that spawned the child.
C6_Witness ==
    /\ out.op \in {"start", "p_start"} /\ out.was_running
    /\ \E c \in ChildIds : ~children[c].observed
    /\ Cardinality({c \in ChildIds : ~children[c].observed}) = 1

\* C7: is_running() is true exactly when the last completed transition was
\* into Running and no exit of that child has been observed since; as the
\* claim states it.
C7_IsRunningExact == IsRunning <=> last_running # 0

\* C8: a failed spawn logs the failure, leaves the supervisor Idle and
\* notifies stopped(-1); as the claim states it.
C8_SpawnFailureNotified ==
    out.failed
    => /\ ~Running
       /\ \E i \in 1..Len(out.logged) : out.logged[i] = "failed_to_start"
       /\ out.emitted = <<Signal("stopped", SpawnFailedCode, FALSE)>>

\* The part of the scheduling that exit handling rests on: an exited child is
\* reaped and a spawn request is answered; timers need not be dispatched.
ReapFairness ==
    /\ WF_vars(\E c \in ChildIds : on_process_exit(c))
    /\ WF_vars(\E c \in ChildIds : p_spawned(c))
    /\ WF_vars(\E c \in ChildIds : p_exit(c))

ReapSpec == Init /\ [][Next]_vars /\ ReapFairness

\* The handlers of a child's exit in the two variants.
ExitHandlers == {"on_process_exit", "p_exit"}

\* The state an exit handler leaves.
C9_Handled ==
    out.op \in ExitHandlers
    => /\ out.child \in ChildIds
       /\ children[out.child].observed
       /\ ~Running /\ process = 0 /\ p_process = 0
       /\ out.emitted = <<Signal("stopped", children[out.child].code, FALSE)>>

\* An exit handler runs for a child that has ended and was not yet handled.
C9_Once ==
    out'.op \in ExitHandlers
    => /\ out'.child \in ChildIds
       /\ ~children[out'.child].alive /\ ~children[out'.child].observed
       /\ children'[out'.child].code = children[out'.child].code

\* No child has ended without its exit having been handled.
C9_NoneUnhandled ==
    \A c \in ChildIds : ~children[c].alive => children[c].observed

\* C9: every exit of a supervised child is handled the same way, once: the
\* handle is cleared, then stopped(exit code) is notified, once, with the
\* child's exit code; no exit is handled twice and none is left unhandled
\* (a handled exit stays handled, so an exit that were never handled would
\* keep C9_NoneUnhandled false for ever).
C9_ExitHandledOnce ==
    /\ []C9_Handled
    /\ [][C9_Once]_vars
    /\ []<>C9_NoneUnhandled

\* C9 witness: the exit of a child that stop() had signalled and that ended
\* with a nonzero code has been handled.
C9_Witness ==
    /\ out.op \in ExitHandlers
    /\ children[out.child].stop_called
    /\ children[out.child].code # 0

\* What a stop() call made while no child is running does.
C10_NoOp ==
    (~Running /\ out'.op \in {"stop", "p_stop"})
    => /\ UNCHANGED <<children, process, stopping, restart_source_id, sources,
                      p_process, p_stopping, spawning, stop_tasks>>
       /\ out'.term = 0 /\ out'.armed = 0 /\ out'.killed = 0
       /\ out'.emitted = <<>> /\ out'.logged = <<>>
       /\ ~out'.was_running

\* C10: stop() called when no child is running sends no signal, arms no
\* timer, emits nothing and changes neither the handle nor anything else of
\* the supervisor.
C10_StopNoOpWhenIdle == [][C10_NoOp]_vars

\* C10 witness: stop() returned early while a restart timer was pending.
C10_Witness ==
    out.op = "stop" /\ ~out.was_running /\ ~Running /\ RestartSources # {}

\* ----------------------------------------------------------- tray claims
\* C11: the Status the Item interface exposes is Active exactly when a child
\* is running, from the construction of the server on; as the claim states it.
C11_StatusMirrorsRunning == (status = "Active") <=> Running

\* The served tree differs after the step: an item or the list of root ids.
TreeChanges == menu_items' # menu_items \/ root_items' # root_items

\* A step of the revision: up by one when the tree changes, never down.
C12_Step ==
    /\ TreeChanges => revision' = revision + 1
    /\ revision' >= revision

\* C12: the menu revision goes up by exactly 1 on every rebuild that changes
\* the tree (an item's structure or displayed property), never goes down and
\* is never set back; it starts at the revision of the constructor.
C12_RevisionBumps == [][C12_Step]_vars /\ [](revision >= InitialRevision)

\* C12 witness: a click on the HDR item rebuilt the menu, which flips the
\* item's label and toggle state, and the revision is past the initial one.
C12_Witness ==
    /\ tout.op = "Event"
    /\ tout.invoked # <<>> /\ tout.invoked[1].fn = "toggle_hdr"
    /\ LayoutUpdates(tout.signals) # <<>>
    /\ revision > InitialRevision

\* The layout a variant builds from the dictionary items.
LayoutOf(items, parent_id, depth) ==
    IF impl = "glib" THEN notifier_build_layout(items, parent_id, depth)
    ELSE build_layout(items, root_items, parent_id, depth)

\* The revision and the menu are those of the last LayoutUpdated signal, and
\* a GetLayout reply carries that revision and the tree of that menu.
C13_Reply ==
    /\ signalled.revision = revision
    /\ items_of(signalled.menu) = menu_items
    /\ tout.op = "GetLayout" =>
          /\ tout.reply.revision = signalled.revision
          /\ tout.reply.layout =
                LayoutOf(items_of(signalled.menu), tout.req[1], tout.req[2])

\* GetLayout changes nothing of the server.
C13_ReadOnly ==
    tout'.op = "GetLayout" =>
       UNCHANGED <<status, revision, menu, settings, config_attached, pending,
                   signalled>>

\* C13: the revision of every GetLayout reply is the revision of the last
\* LayoutUpdated signal (the initial revision if there was none), the tree
\* of the reply is the tree of that revision, and GetLayout changes neither
\* the revision nor the model.
C13_GetLayoutCurrent == []C13_Reply /\ [][C13_ReadOnly]_vars

\* C13 witness: GetLayout answered after the revision had been bumped.
C13_Witness ==
    /\ tout.op = "GetLayout"
    /\ revision > InitialRevision
    /\ tout.reply.revision = revision

\* The handler that just ran was a status change or a menu action that
\* found a configuration to write.
C14_Rebuilt ==
    \/ tout'.op = "set_status" /\ (impl = "glib" => status' # status)
    \/ /\ tout'.op = "Event" /\ tout'.invoked # <<>>
       /\ tout'.invoked[1].fn \in MenuActions
       /\ config_attached

\* What a handler sends: at most one LayoutUpdated, one when it rebuilt or
\* changed the tree, sent after the change and carrying the new revision.
C14_Step ==
    LET ups == LayoutUpdates(tout'.signals)
    IN  /\ Len(ups) <= 1
        /\ (TreeChanges \/ C14_Rebuilt) => Len(ups) = 1
        /\ Len(ups) = 1 =>
              /\ C14_Rebuilt
              /\ ups[1].arg = <<revision', 0>>
              /\ revision' = revision + 1
              /\ items_of(ups[1].menu) = menu_items'

\* C14: every operation that changes the served menu (a status change, a
\* resolution or filter selection, an HDR or VRR toggle) sends exactly one
\* LayoutUpdated, after the model has changed and carrying the new revision;
\* nothing else sends one and no change of the menu goes without one.
C14_OneLayoutUpdated == [][C14_Step]_vars

\* C14 witness: a status change sent its LayoutUpdated.
C14_Witness ==
    /\ tout.op = "set_status"
    /\ Len(LayoutUpdates(tout.signals)) = 1
    /\ tout.signals[Len(tout.signals)].arg = <<revision, 0>>

\* rootIds: the _root_items list of StatusNotifierService, and the items of
\* StatusNotifierItem's flat menu in the order its constructor declares them.
RootIds == IF impl = "glib" THEN <<1, 2, 3, 4, 5, 6, 7>> ELSE ServiceRootItems

\* The ids of a node's children, in order.
ChildIdsOf(node) == [k \in 1..Len(node.children) |-> node.children[k].id]

\* C15: GetLayout of parent 0 at a depth that permits children (unlimited, or
\* above 0) answers a node with id 0 whose children are rootIds in order, and
\* 0 is not the id of an item.
C15_RootLayout ==
    /\ 0 \notin DOMAIN menu_items
    /\ (tout.op = "GetLayout" /\ tout.req[1] = 0 /\ tout.req[2] # 0) =>
          /\ tout.reply.layout.id = 0
          /\ ChildIdsOf(tout.reply.layout) = RootIds

\* C15 witness: GetLayout(0, -1) answered with children.
C15_Witness ==
    /\ tout.op = "GetLayout" /\ tout.req = <<0, 0 - 1>>
    /\ tout.reply.layout.children # <<>>

\* The children the model declares for id.
DeclaredChildren(id) ==
    IF id = 0 THEN RootIds
    ELSE IF id \in DOMAIN menu_items THEN menu_items[id].children
    ELSE <<>>

\* node shows its descendants down to depth levels and no further (all of
\* them when depth is negative), in the declared order.
RECURSIVE HonoursDepth(_, _)
HonoursDepth(node, depth) ==
    IF depth = 0 THEN node.children = <<>>
    ELSE /\ ChildIdsOf(node) = DeclaredChildren(node.id)
         /\ \A k \in 1..Len(node.children) :
               HonoursDepth(node.children[k],
                            IF depth > 0 THEN depth - 1 ELSE depth)

\* C16: GetLayout honours the depth for every parentId: the whole subtree for
\* a negative depth, no children for depth 0, n levels of descendants for
\* depth n > 0, the children in their declared order; as the claim states it.
C16_DepthHonoured ==
    tout.op = "GetLayout" =>
       /\ tout.reply.layout.id = tout.req[1]
       /\ HonoursDepth(tout.reply.layout, tout.req[2])

\* The requested ids that are in the menu, in the order requested.
KnownIds(ids) == SelectSeq(ids, LAMBDA i : i \in DOMAIN menu_items)

\* C17: GetGroupProperties answers one entry for each requested id that is
\* in the model and none for an id that is not; as the claim states it.
C17_UnknownIdsOmitted ==
    tout.op = "GetGroupProperties" =>
       /\ Len(tout.reply) = Len(KnownIds(tout.req))
       /\ \A k \in 1..Len(tout.reply) :
             /\ tout.reply[k][1] = KnownIds(tout.req)[k]
             /\ tout.reply[k][1] \in DOMAIN menu_items

\* The properties the variant serves for id.
PropsOf(id) ==
    IF impl = "glib" THEN get_item_properties(menu_items, id)
    ELSE get_item_props(menu_items, id)

\* C18: GetProperty answers the item's value for a property the item has and
\* an invalid-argument error for any other name, a name on an id that is not
\* in the model included; as the claim states it.
C18_UnknownPropertyIsError ==
    tout.op = "GetProperty" =>
       IF tout.req[2] \in DOMAIN PropsOf(tout.req[1])
       THEN tout.error = "" /\ tout.reply = PropsOf(tout.req[1])[tout.req[2]]
       ELSE tout.error = "INVALID_ARGS"

\* Event(id, eventId) is a click on an enabled item that has an action.
C19_Hit(id, event_id) ==
    /\ event_id = "clicked"
    /\ id \in DOMAIN menu_items
    /\ menu_items[id].enabled
    /\ menu_items[id].callback.fn # "none"

\* An Event call runs the item's action, or hands it to the main loop, once
\* on a hit; otherwise it does nothing at all.
C19_Event ==
    tout'.op = "Event" =>
       IF C19_Hit(tout'.req[1], tout'.req[2])
       THEN /\ tout'.invoked \o tout'.scheduled =
                  <<menu_items[tout'.req[1]].callback>>
            /\ tout'.error = ""
            /\ pending' = pending \o tout'.scheduled
       ELSE /\ tout'.invoked = <<>> /\ tout'.scheduled = <<>>
            /\ tout'.signals = <<>> /\ tout'.error = ""
            /\ UNCHANGED <<status, revision, menu, settings, config_attached,
                           pending, signalled>>
            /\ UNCHANGED sup_vars

\* An action handed to the main loop is run once, in turn, and nothing but an
\* Event call hands one over.
C19_Idle ==
    /\ tout'.op = "idle" =>
          /\ pending # <<>>
          /\ tout'.invoked = <<Head(pending)>>
          /\ pending' = Tail(pending)
    /\ tout'.op \notin {"Event", "idle"} =>
          pending' = pending /\ tout'.invoked = <<>> /\ tout'.scheduled = <<>>

\* C19: Event runs the item's action, once, exactly when the event is
\* "clicked" and the id is that of an enabled item with an action; an
\* unknown id, a disabled item, an item without an action and any other
\* event are ignored without an error and without a change of the menu, the
\* revision or the supervisor.  While an action handed to the main loop
\* waits, the loop comes to run the one at the head of its queue.
C19_ClickRunsActionOnce ==
    /\ [][C19_Event /\ C19_Idle]_vars
    /\ (pending # <<>>) ~> (tout.op = "idle" /\ tout.invoked # <<>>)

\* C19 witness: a click ran or scheduled the action of an enabled item, and
\* the loop has run a scheduled one.
C19_Witness ==
    \/ tout.op = "Event" /\ tout.invoked # <<>> /\ tout.req[1] = 1
    \/ tout.op = "idle" /\ tout.invoked # <<>> /\ tout.invoked[1].fn = "do_start"

\* The radio groups StatusNotifierService declares and the setting each one
\* shows.
ResolutionGroup == {11, 12, 13, 14}
FilterGroup == {21, 22, 23}

\* The members of group that are shown selected.
Selected(group) == {i \in group : menu_items[i].toggle_state}

\* C20: in each radio group exactly one member has toggleState true, and it
\* is the member of the configuration value the menu was built from, for
\* every value the configuration can hold; as the claim states it.
C20_RadioGroupExactlyOne ==
    impl = "asyncio" =>
       /\ Cardinality(Selected(ResolutionGroup)) = 1
       /\ \A i \in Selected(ResolutionGroup) :
             menu_items[i].callback.arg = menu.cfg.render
       /\ Cardinality(Selected(FilterGroup)) = 1
       /\ \A i \in Selected(FilterGroup) :
             menu_items[i].callback.arg = menu.cfg.filter

\* The glyphs that show an item as selected and as not selected.
SelectedGlyphs == {"filled_circle", "check_mark"}
UnselectedGlyphs == {"empty_circle", "blank"}

\* C21: for every radio and checkmark item of the served menu, the glyph in
\* front of the label shows "selected" exactly when the toggle-state
\* property the server answers is 1.
C21_GlyphAgreesWithToggle ==
    \A i \in DOMAIN menu_items :
       menu_items[i].toggle_type # "none" =>
          LET props == get_item_props(menu_items, i)
          IN  /\ "toggle-state" \in DOMAIN props
              /\ props["label"].value.glyph \in SelectedGlyphs \cup UnselectedGlyphs
              /\ props["label"].value.glyph \in SelectedGlyphs
                   <=> props["toggle-state"].value = 1

\* C21 witness: a menu action has rebuilt the menu, and the rebuilt menu
\* holds a selected and an unselected member of both kinds of toggle.
C21_Witness ==
    /\ tout.op = "Event" /\ LayoutUpdates(tout.signals) # <<>>
    /\ menu_items[31].toggle_state /\ ~menu_items[32].toggle_state
    /\ menu_items[23].toggle_state /\ ~menu_items[21].toggle_state

\* The menu build(configuration, running) gives: the dictionary of
\* _rebuild_menu with Start enabled exactly when no child runs and Stop
\* enabled exactly when one does.
BuildOf(c, running) ==
    lifecycle_items(IF impl = "glib" THEN notifier_menu ELSE rebuild_menu(c),
                    running)

\* C22: after every set_status and every menu action the served menu is
\* build(current configuration, current running flag), so Start is enabled
\* exactly when no child is running and Stop exactly when one is; as the
\* claim states it.  The running flag is the one the server was last told.
C22_TreeIsBuild ==
    (\/ tout.op = "set_status"
     \/ tout.op = "Event" /\ tout.invoked # <<>>
          /\ tout.invoked[1].fn \in MenuActions
          /\ LayoutUpdates(tout.signals) # <<>>) =>
       /\ menu_items = BuildOf(settings_read(config_attached, settings),
                               status = "Active")
       /\ menu_items[1].enabled <=> status # "Active"
       /\ menu_items[2].enabled <=> status = "Active"

\* The startup has come to its end; for StatusNotifierItem, register() has
\* returned and what follows is up to the bus.
StartupCompleted ==
    IF impl = "glib" THEN bus.pc \in {"name_requested", "queued", "done"}
    ELSE bus.pc = "done"

\* What holds of the connection at every moment of the startup.
C23_Safe ==
    /\ Len(bus.registrations) <= 1
    /\ bus.warnings <= 1
    /\ bus.registrations # <<>> =>
          /\ bus.exported = ObjectPaths
          /\ bus.name # "" /\ bus.registrations = <<bus.name>>
    /\ bus.warnings # 0 => bus.pc = "done" /\ ~bus.accepted
    /\ bus.pc = "done" =>
          /\ bus.exported = ObjectPaths /\ bus.name # ""
          /\ bus.accepted <=> bus.warnings = 0
          /\ bus.accepted => Len(bus.registrations) = 1
    /\ StartupCompleted => bus.exported = ObjectPaths
    /\ tout.op \in {"GetLayout", "GetProperty"} => bus.exported = ObjectPaths

\* A failure of the watcher is printed and changes nothing else: the
\* exported paths and the identity stay, and the server stays as it was.
C23_FailureOnlyWarns ==
    bus'.warnings # bus.warnings =>
       /\ bus'.warnings = bus.warnings + 1
       /\ bus'.exported = bus.exported /\ bus'.name = Identity
       /\ bus'.pc = "done"
       /\ UNCHANGED <<status, revision, menu, settings, config_attached,
                      pending, signalled>>

\* C23: on connect the server exports both interfaces and acquires its
\* identity before it issues the registration call to the watcher, which it
\* issues at most once, with that identity, and exactly once when the watcher
\* answers; when the watcher cannot be reached or the call fails, one warning
\* is printed, the startup completes, and both interfaces stay exported and
\* answer calls.
C23_StartupRegistration ==
    /\ []C23_Safe
    /\ [][C23_FailureOnlyWarns]_vars
    /\ <>StartupCompleted
    /\ [](bus.exported = ObjectPaths => ENABLED StartupCall)

\* C23 witness: the watcher failed, the startup is complete, and a GetLayout
\* call has been answered since.
C23_Witness ==
    /\ bus.pc = "done" /\ bus.warnings = 1
    /\ tout.op = "GetLayout" /\ tout.reply.layout.children # <<>>

\* The NewStatus signals among sigs.
StatusSignals(sigs) == SelectSeq(sigs, LAMBDA g : g.sig = "NewStatus")

\* A handler sends at most one NewStatus, one whenever it changes the
\* status, and the signal carries the status the handler has stored.
C25_Step ==
    LET ns == StatusSignals(tout'.signals)
    IN  /\ Len(ns) <= 1
        /\ status' # status => Len(ns) = 1
        /\ Len(ns) = 1 =>
              ns[1].arg = status' /\ tout'.op \in {"set_status", "controller"}

\* C25: every set_status call that changes the status among Passive, Active
\* and NeedsAttention sends exactly one NewStatus, after the status has been
\* stored, so the status signalled is the status the property reads.
C25_NewStatusOnTransition == [][C25_Step]_vars

\* C25 witness: set_status has moved the status to NeedsAttention and the
\* signal says so.
C25_Witness ==
    /\ tout.op = "set_status" /\ status = "NeedsAttention"
    /\ Len(StatusSignals(tout.signals)) = 1
    /\ StatusSignals(tout.signals)[1].arg = "NeedsAttention"

\* AboutToShow answers false and leaves the server as it was.
C26_Step ==
    tout'.op = "AboutToShow" =>
       /\ tout'.reply = Variant("b", FALSE)
       /\ tout'.signals = <<>> /\ tout'.error = ""
       /\ UNCHANGED <<status, revision, menu, settings, config_attached,
                      pending, signalled>>

\* C26: AboutToShow(id) answers "no update needed" for every id, in the menu
\* or not, and changes neither the menu nor the revision.
C26_AboutToShowFalse == [][C26_Step]_vars

\* C26 witness: AboutToShow was answered for an item of the menu after the
\* revision had moved, and for an id that is in no menu.
C26_Witness ==
    /\ tout.op = "AboutToShow"
    /\ \/ tout.req = <<1>> /\ revision > InitialRevision
       \/ tout.req = <<99>>

\* Every value the configuration can hold, as far as the menu reads it.
AllSettings ==
    [render : Resolutions, filter : Filters, hdr_enabled : BOOLEAN,
     adaptive_sync : BOOLEAN]

\* The build gives a dictionary over the same ids for every configuration.
C27_Total ==
    \A c \in AllSettings :
       /\ DOMAIN rebuild_menu(c) = ServiceItemIds
       /\ \A i \in ServiceItemIds :
             rebuild_menu(c)[i].toggle_type \in {"none", "radio", "checkmark"}

\* A menu action has rebuilt the menu in this step.
Rebuilds ==
    /\ impl = "asyncio"
    /\ tout'.op = "Event" /\ LayoutUpdates(tout'.signals) # <<>>

\* What a rebuild leaves is the build of the configuration alone.
C27_Step ==
    Rebuilds =>
       /\ menu_items' = rebuild_menu(settings')
       /\ root_items' = ServiceRootItems

\* C27: the build is a total and deterministic function of its inputs: it
\* gives a tree for every configuration value, and the items and root ids a
\* rebuild leaves are those the build gives for the configuration at hand,
\* whatever the previous tree was and however many rebuilds came before.
C27_BuildIsFunction == []C27_Total /\ [][C27_Step]_vars

\* C27 witness: a rebuild after the revision had moved twice, over a tree
\* whose Start item set_status had disabled, left Start enabled as a fresh
\* build does.
C27_Witness ==
    /\ impl = "asyncio"
    /\ tout.op = "Event" /\ LayoutUpdates(tout.signals) # <<>>
    /\ status = "Active" /\ revision > InitialRevision + 1
    /\ menu_items[1].enabled

\* The id ranges of the sections of the menu.
LifecycleIds == 1..3
ResolutionIds == 10..14
FilterIds == 20..23
ToggleIds == 30..32
QuitIds == 40..41
Sections == {LifecycleIds, ResolutionIds, FilterIds, ToggleIds, QuitIds}

\* The section the action of an item belongs to.
SectionOf(fn) ==
    CASE fn \in {"do_start", "do_stop"} -> LifecycleIds
      [] fn = "set_resolution" -> ResolutionIds
      [] fn = "set_filter" -> FilterIds
      [] fn \in {"toggle_hdr", "toggle_vrr"} -> ToggleIds
      [] fn = "do_quit" -> QuitIds
      [] OTHER -> UNION Sections

\* How often id occurs in the sequence ids.
Occurrences(ids, id) == Cardinality({k \in 1..Len(ids) : ids[k] = id})

\* How often id is listed as a child, of the root or of an item.
Listings(items, roots, id) ==
    LET RECURSIVE Sum(_)
        Sum(S) == IF S = {} THEN 0
                  ELSE LET i == CHOOSE x \in S : TRUE
                       IN  Occurrences(items[i].children, id) + Sum(S \ {i})
    IN  Occurrences(roots, id) + Sum(DOMAIN items)

\* The ids listed under the ids of S.
ChildrenOf(items, S) ==
    UNION {{items[i].children[k] : k \in 1..Len(items[i].children)} :
             i \in S \cap DOMAIN items}

\* The ids reached from those of R by following the lists of children.
RECURSIVE ReachedFrom(_, _)
ReachedFrom(items, R) ==
    LET N == R \cup ChildrenOf(items, R)
    IN  IF N = R THEN R ELSE ReachedFrom(items, N)

\* The dictionary items and the root list roots make a well-formed tree.
WellFormed(items, roots) ==
    /\ 0 \notin DOMAIN items
    /\ \A i \in DOMAIN items :
          /\ i \in UNION Sections
          /\ i \in SectionOf(items[i].callback.fn)
          /\ \A k \in 1..Len(items[i].children) :
                \E a \in Sections : i \in a /\ items[i].children[k] \in a
          /\ Listings(items, roots, i) = 1
    /\ ReachedFrom(items, {roots[k] : k \in 1..Len(roots)}) = DOMAIN items

\* C28: the menu of StatusNotifierService is a well-formed tree: 0 is not
\* the id of an item; the ids lie in the disjoint ranges of their sections
\* (lifecycle 1-3, resolution 10-14, filter 20-23, toggles 30-32, quit
\* 40-41); every id listed under the root or under an item is the id of an
\* item; and every item is reached from the root, and listed exactly once.
C28_WellFormedTree ==
    impl = "asyncio" =>
       /\ \A a, b \in Sections : a # b => a \cap b = {}
       /\ WellFormed(menu_items, root_items)

\* C28 witness: a menu action has rebuilt the menu of StatusNotifierService.
C28_Witness ==
    /\ impl = "asyncio"
    /\ tout.op = "Event" /\ LayoutUpdates(tout.signals) # <<>>
    /\ revision > InitialRevision

\* The newest n entries of xs, oldest first (all of xs if it has fewer).
KeepLast(xs, n) ==
    IF Len(xs) <= n THEN xs ELSE SubSeq(xs, Len(xs) - n + 1, Len(xs))

\* The lines 1..n in the order they were logged.
LinesTo(n) == [i \in 1..n |-> Line(i)]

\* C24: the log buffer never holds more than 1000 lines, and after any
\* number of appends (1000 + k included) it holds exactly the most recent
\* 1000 of the appended lines (all of them if fewer) in their original
\* order, so the entries evicted are the oldest.
C24_MostRecentLines ==
    /\ Len(log_buffer.items) <= LOG_BUFFER_SIZE
    /\ log_buffer.items = KeepLast(LinesTo(Appended), LOG_BUFFER_SIZE)

\* More lines than the capacity were appended: the buffer is full and its
\* oldest entry is no longer the first line.
C24_Witness ==
    /\ Appended = LOG_BUFFER_SIZE + MaxOverflow
    /\ Len(log_buffer.items) = LOG_BUFFER_SIZE
    /\ log_buffer.items[1] = Line(MaxOverflow + 1)

\* The steps of the read loops.
ReadOps == {"on_line_read", "p_read_output", "p_line_read"}

\* The lines a read loop can hand to _log.
CapturedLines ==
    {add_newline(strip_newline(raw)) : raw \in {x \in RawLines : is_utf8(x)}}
      \cup {decode_replace(raw) : raw \in RawLines}

\* This step ends the read loop on the output of some child.
StreamEnds ==
    /\ out'.op \in ReadOps
    /\ out'.child \in ChildIds
    /\ children[out'.child].reader \in {"created", "waiting"}
    /\ children'[out'.child].reader = "ended"

\* What the supervisor tracks of its child and tells of it.
Tracking ==
    <<IsRunning, Running, process, stopping, restart_source_id, sources,
      p_process, p_stopping, spawning, stop_tasks, auto_restart, status,
      [c \in ChildIds |-> [alive |-> children[c].alive,
                           observed |-> children[c].observed,
                           code |-> children[c].code]]>>

\* C29: a stream error or the end of the merged output stream ends the read
\* loop silently: the step emits neither 'started' nor 'stopped', raises
\* nothing, logs no message of its own, schedules no restart, and leaves
\* is_running and everything else the supervisor tracks of the process as
\* it was; a restart is scheduled only by the handler of an observed exit.
C29_Step ==
    /\ StreamEnds =>
          /\ Tracking' = Tracking
          /\ out'.emitted = <<>>
          /\ out'.scheduled = 0 /\ out'.armed = 0
          /\ out'.spawned = 0 /\ out'.term = 0 /\ out'.killed = 0
          /\ ~out'.raised
          /\ \A i \in DOMAIN out'.logged : out'.logged[i] \in CapturedLines
          /\ (impl = "glib" => out'.logged = <<>> /\ log_buffer' = log_buffer)
    /\ out'.op \in ReadOps => out'.emitted = <<>> /\ Tracking' = Tracking
    /\ out'.scheduled # 0 => out'.op = "on_process_exit"

C29_StreamEndIsSilent == [][C29_Step]_vars

\* The read loop on the output of the running child has ended, in either
\* variant, and the child is still tracked as running.
C29_Witness ==
    /\ out.op \in {"on_line_read", "p_line_read"}
    /\ out.logged = <<>>
    /\ out.child \in ChildIds
    /\ children[out.child].reader = "ended"
    /\ children[out.child].alive
    /\ IsRunning
    /\ (IF impl = "glib" THEN process ELSE p_process) = out.child

\* The complete lines of text a child can write.
CompleteLines == {"frame 1\n", "frame 2\n"}

\* C30: each complete line read from the child's merged output is handed
\* to the log sink exactly once, as the child wrote it, and appended to the
\* log buffer by the same step, after everything read before it, and the
\* read loop goes on; and every step leaves the buffer the newest entries
\* (at most its capacity) of what it held followed by the lines the step
\* delivered to the sink, so the buffer stays a suffix of the sink's lines.
C30_Step ==
    /\ (out'.op \in {"on_line_read", "p_line_read"}
          /\ out'.read \in CompleteLines) =>
          /\ out'.logged = <<out'.read>>
          /\ impl = "glib" =>
                /\ log_buffer'.items # <<>>
                /\ log_buffer'.items[Len(log_buffer'.items)] = out'.read
                /\ children'[out'.child].reader = "waiting"
    /\ impl = "glib" =>
          /\ log_buffer'.items =
                KeepLast(log_buffer.items \o out'.logged, LogCapacity)
          /\ log_buffer'.maxlen = LogCapacity
    /\ impl = "asyncio" => log_buffer'.items = <<>>

Referenced == {s \in RestartSources : s.id = restart_source_id}

\* The stored reference is None or denotes an attached restart timer.
C31_ReferenceAlive ==
    restart_source_id # 0 => Referenced # {}

\* A stop() removes no restart timer but the referenced one, clears the
\* reference when it removes it, and removes nothing when no reference is
\* set; a stop() right after a stop() changes neither timers nor reference.
C31_Step ==
    out'.op \in {"stop"} =>
       LET removed == RestartSources \ RestartSources'
       IN  /\ removed \subseteq Referenced
           /\ removed # {} => restart_source_id' = 0 /\ out'.cancelled # 0
           /\ out'.cancelled # 0 =>
                 /\ removed = Referenced
                 /\ out'.cancelled = restart_source_id
           /\ restart_source_id = 0 =>
                 removed = {} /\ restart_source_id' = 0
           /\ out.op = "stop" =>
                 /\ removed = {}
                 /\ restart_source_id' = restart_source_id

\* C31: cancelling the auto-restart timer is idempotent: stop() removes a
\* timer only if the stored reference is set and clears the reference
\* afterwards, cancelling twice or with none pending is a no-op, and the
\* stored reference never denotes a timer that has fired or been removed.
C31_CancelIdempotent == []C31_ReferenceAlive /\ [][C31_Step]_vars

\* A stop() has removed the pending restart timer and cleared the reference.
C31_Witness ==
    /\ out.op = "stop"
    /\ out.cancelled # 0
    /\ restart_source_id = 0
    /\ \A s \in sources : s.id # out.cancelled \/ s.kind # "restart"

\* C32: at most one auto-restart timer is pending at any time, and the
\* stored timer reference is set if and only if a restart timer is pending.
C32_OneRestartTimer ==
    /\ Cardinality(RestartSources) <= 1
    /\ restart_source_id # 0 <=> RestartSources # {}

\* The children that have been spawned and have not exited.
Alive == {c \in ChildIds : children[c].alive}

\* C33: in the asyncio supervisor at most one child process is alive at any
\* time, under every interleaving of start() and stop() coroutines.
C33_OneChildAlive ==
    impl = "asyncio" => Cardinality(Alive) <= 1

\* The signals of kind sig among sigs.
Emitted(sigs, sig) == {i \in DOMAIN sigs : sigs[i].sig = sig}

\* Between a 'started' and the 'stopped' that follows it, and only then,
\* self._process is set: 'started' is emitted by a step that finds no
\* child started and not yet stopped and stores the child it spawned,
\* 'stopped' by a step that handles the exit of that very child and clears
\* the handle, and nothing else sets or clears the handle.
C34_Step ==
    impl = "glib" =>
       /\ Len(out'.emitted) <= 1
       /\ Emitted(out'.emitted, "started") # {} =>
             /\ process = 0
             /\ process' # 0 /\ process' = out'.spawned
             /\ process' \notin ChildIds
             /\ ~children'[process'].observed
       /\ Emitted(out'.emitted, "stopped") # {} =>
             /\ process # 0 /\ process = out'.child
             /\ process' = 0
             /\ ~children[process].observed /\ children'[process].observed
             /\ out'.emitted[1].code = children[process].code
       /\ process' # process => out'.emitted # <<>>
       /\ out'.emitted # <<>> => process' # process

\* No child is started and not yet stopped before the first signal, and the
\* child started and not yet stopped is the only one whose exit has not
\* been handled.
C34_Phase ==
    impl = "glib" =>
       /\ out.op = "init" => process = 0
       /\ {c \in ChildIds : ~children[c].observed} = {process} \ {0}

\* C34: the started and stopped notifications of the GLib supervisor
\* strictly alternate, beginning with started: every stopped is preceded by
\* the started of the same child, and no second started is emitted before
\* the stopped of the previous child.
C34_SignalsAlternate == []C34_Phase /\ [][C34_Step]_vars

\* The second child, spawned by the auto-restart, has been stopped: started,
\* stopped, started, stopped.
C34_Witness ==
    /\ impl = "glib"
    /\ out.op = "on_process_exit"
    /\ out.child = 2
    /\ Emitted(out.emitted, "stopped") # {}
    /\ children[1].observed /\ children[2].observed
    /\ process = 0

\* This step is a start() that passed the running check.
StartPassed ==
    /\ out'.op \in {"start", "do_restart", "p_start"}
    /\ out'.start_called /\ ~out'.was_running

\* This step handles the crash of a child no stop() was issued against,
\* with auto-restart enabled.
CrashUnstopped ==
    /\ out'.op = "on_process_exit"
    /\ ~children[out'.child].stop_called
    /\ children[out'.child].code # 0
    /\ auto_restart

\* A start() that passes the running check leaves the stop flag cleared,
\* whether the spawn succeeds or not; the crash of a child no stop() was
\* issued against schedules the restart, whatever was stopped before.
C35_Step ==
    /\ StartPassed =>
          IF impl = "glib" THEN ~stopping' ELSE ~p_stopping'
    /\ out'.spawned # 0 /\ impl = "glib" => ~stopping'
    /\ CrashUnstopped =>
          /\ ~stopping
          /\ out'.scheduled # 0
          /\ restart_source_id' = out'.scheduled
          /\ \E s \in sources' \ sources :
                s.kind = "restart" /\ s.id = out'.scheduled

\* C35: the user-initiated-stop flag applies only to the child it was
\* issued against: every start() that passes the running check clears it
\* before spawning, so a child started after an earlier stop() that later
\* crashes with auto-restart enabled and no new stop() gets its restart.
C35_StopFlagPerChild == [][C35_Step]_vars

\* Child 1 was stopped by the user; child 2, started afterwards, crashed
\* without a stop() and its restart is scheduled.
C35_Witness ==
    /\ out.op = "on_process_exit"
    /\ out.child = 2
    /\ children[1].stop_called /\ children[1].observed
    /\ ~children[2].stop_called /\ children[2].code # 0
    /\ out.scheduled # 0
    /\ restart_source_id = out.scheduled

\* A set_status call that asks for the status the server already has leaves
\* status, revision and menu items as they were and sends no signal.
C36_Step ==
    (tout'.op = "set_status" /\ status' = status) =>
       /\ tout'.signals = <<>>
       /\ revision' = revision
       /\ menu' = menu

\* C36: set_status called with the status the server already has changes
\* nothing: no NewStatus signal, no LayoutUpdated signal, no revision
\* increment and no change to the menu items; as the claim states it.
C36_SameStatusNoChange == [][C36_Step]_vars

\* The same, for StatusNotifierItem alone.
C36_NotifierStep == impl = "glib" => C36_Step

C36_NotifierSameStatusNoChange == [][C36_NotifierStep]_vars

\* The items that show a configuration value.
ConfigItemIds == ResolutionIds \cup FilterIds \cup ToggleIds

\* What is served for the items that show a configuration value is what a
\* build from the current configuration has there, once one is attached.
C37_Served ==
    (impl = "asyncio" /\ config_attached) =>
       LET items == menu_items
           built == rebuild_menu(settings)
       IN  \A id \in ConfigItemIds \cap DOMAIN built :
              id \in DOMAIN items /\ items[id] = built[id]

\* A menu action run with no configuration attached rebuilds nothing, sends
\* nothing and leaves the revision and the settings as they were.
C37_NoOpStep ==
    (/\ tout'.op = "Event" /\ tout'.invoked # <<>>
     /\ tout'.invoked[1].fn \in MenuActions
     /\ ~config_attached) =>
       /\ menu' = menu
       /\ revision' = revision
       /\ settings' = settings
       /\ tout'.signals = <<>>

\* C37: from the moment set_config has been called, the toggle states and
\* labels served match the current configuration values without a menu
\* action having to happen first; before a configuration is attached the
\* select-resolution, select-filter and toggle actions are no-ops; as the
\* claim states it.
C37_ConfigShown == []C37_Served /\ [][C37_NoOpStep]_vars

\* The second half alone.
C37_UnattachedNoOp == [][C37_NoOpStep]_vars

\* The application has quit from the dialog with the user's Yes, and its
\* stop() sent the graceful signal to the running child.
QuitConfirmed ==
    /\ app = "exited"
    /\ out.op = "stop" /\ out.was_running /\ out.term # 0

\* C38: quitting while a child is running, with the user confirming that it
\* should be stopped, never leaves the child alive after the application
\* has exited: the graceful signal is sent and, if the child ignores it, the
\* forceful kill is still delivered; as the claim states it.
C38_QuitStopsChild ==
    /\ [](QuitConfirmed => children[out.term].stop_called)
    /\ QuitConfirmed ~> (\A c \in ChildIds : ~children[c].alive)

====
